---- MODULE Spec2Model ----
(***************************************************************************)
(* Pending-edit buffer of the workout history screen (HistorySummary.tsx)  *)
(* and the per-entity REST endpoints it commits against (workouts.ts).     *)
(*                                                                         *)
(* Conventions of the data model                                           *)
(*   - a JS Map is a sequence of <<key, value>> pairs in insertion order;  *)
(*   - numeric fields: 0 stands for null / undefined (both falsy in the    *)
(*     code), text fields: "" stands for null / undefined;                 *)
(*   - completed_at: 0 is NULL, 1 is some timestamp;                       *)
(*   - a nullable React state holding an object is a sequence of length    *)
(*     0 (null) or 1; a nullable id is 0 when null (ids are never 0).      *)
(***************************************************************************)
EXTENDS Integers, Sequences, FiniteSets, TLC

\* ---------------------------------------------------------------- bounds
MaxMounts == 1
MaxUserOps == 2
MaxClock == 1
MaxCommits == 1
\* further runs of the save handler after a failed one
MaxRetries == 1
\* further visits of the page after the bounded ones
MaxRemounts == 1
\* further deletions of an exercise instance after the bounded changes
MaxLateOps == 1

\* ------------------------------------------------------- program constants
DefaultIntensity == 3
\* JavaScript's null in a text field
Null == "null"
NaN == -9999

\* exercise definitions known to the exercises table (id -> name)
Defs == {1, 2, 3}
DefName(d) == IF d = 1 THEN "Bench" ELSE IF d = 2 THEN "Squat" ELSE "Row"

\* ------------------------------------------------------------ JS Map model
MapKeys(m) == {m[i][1] : i \in 1..Len(m)}
MapHas(m, k) == k \in MapKeys(m)
MapIdx(m, k) == CHOOSE i \in 1..Len(m) : m[i][1] = k
MapGet(m, k) == m[MapIdx(m, k)][2]
MapSet(m, k, v) ==
    IF MapHas(m, k) THEN [m EXCEPT ![MapIdx(m, k)] = <<k, v>>]
    ELSE Append(m, <<k, v>>)
MapDelete(m, k) ==
    IF MapHas(m, k)
    THEN LET i == MapIdx(m, k)
         IN  SubSeq(m, 1, i - 1) \o SubSeq(m, i + 1, Len(m))
    ELSE m
EmptyMap == <<>>

\* {...a, ...b} for objects modelled as functions over field names
Spread(a, b) ==
    [f \in (DOMAIN a) \cup (DOMAIN b) |-> IF f \in DOMAIN b THEN b[f] ELSE a[f]]
NoFields == [f \in {} |-> 0]

RECURSIVE SeqFilterIdx(_, _, _)
SeqFilterIdx(s, keep, i) ==
    IF i > Len(s) THEN <<>>
    ELSE (IF i \in keep THEN <<s[i]>> ELSE <<>>) \o SeqFilterIdx(s, keep, i + 1)

\* ------------------------------------------------------------ remote store
VARIABLES srvHeader, srvEx, srvSets, srvSeq
srvVars == <<srvHeader, srvEx, srvSets, srvSeq>>

\* rows as created by migrations/7.sql and the workout_exercises table
SetRow(id, ex, n, w, r, dur, dist, notes, done) ==
    [id |-> id, workout_exercise_id |-> ex, set_number |-> n, weight_lbs |-> w,
     reps |-> r, duration_seconds |-> dur, distance_miles |-> dist,
     notes |-> notes, completed_at |-> done]
ExRow(id, def, idx) == [id |-> id, exercise_id |-> def, order_index |-> idx]

\* a point in time as an ISO text: <<minute, second>>
InitHeader == [name |-> "Push", intensity_level |-> 2, notes |-> "warm",
               started_at |-> <<1, 30>>, completed_at |-> <<3, 0>>,
               duration_minutes |-> 2]
InitEx == {ExRow(1, 1, 0), ExRow(2, 2, 1)}
InitSets == {SetRow(1, 1, 1, 50, 8, 30, 0, "", 1),
             SetRow(2, 1, 2, 0, 0, 0, 0, "", 0)}

\* ORDER BY <col> ASC: every order of the rows that is ascending in col
RECURSIVE SortedBy(_, _)
SortedBy(S, col) ==
    IF S = {} THEN {<<>>}
    ELSE LET m == CHOOSE v \in {r[col] : r \in S} : \A r \in S : v <= r[col]
         IN  UNION {{<<r>> \o t : t \in SortedBy(S \ {r}, col)} :
                        r \in {x \in S : x[col] = m}}

\* GET /api/workouts/:id  -- the set of response bodies the store can produce
SetsOf(exId) == {s \in srvSets : s.workout_exercise_id = exId}
ExerciseWithSets(e, sets) ==
    [id |-> e.id, exercise_id |-> e.exercise_id, order_index |-> e.order_index,
     name |-> DefName(e.exercise_id), sets |-> sets]
RECURSIVE ExercisesWithSets(_)
ExercisesWithSets(es) ==
    IF es = <<>> THEN {<<>>}
    ELSE {<<ExerciseWithSets(Head(es), ss)>> \o rest :
            ss \in SortedBy(SetsOf(Head(es).id), "set_number"),
            rest \in ExercisesWithSets(Tail(es))}
GetWorkout ==
    {Spread(srvHeader, [exercises |-> exs]) :
        exs \in UNION {ExercisesWithSets(es) : es \in SortedBy(srvEx, "order_index")}}

\* ----------------------------------------------------- browser and session
VARIABLES
    phase,              \* "closed" | "suspended" (at the picker page) | "open" (mounted)
    blob,               \* sessionStorage["workout-<id>-preservation"]: <<>> or <<entry>>
    blobTimer,          \* the 30 s removal timer of the blob is armed
    lastClock,          \* last reading of Date.now()
    mounts, userOps     \* bounded counters of the exploration
envVars == <<blob, blobTimer, lastClock, mounts, userOps>>

\* React state of HistorySummary (lines 90-130)
VARIABLES
    originalWorkout, workout, loading,
    tempWorkoutName, tempIntensity, tempWorkoutNotes,
    tempStartDateTime, tempEndDateTime, showEditDurationDialog,
    isSaving, isRestoring,
    editingSet, addingSetToExercise,
    showExerciseSelectionModal, exerciseSelectionMode, replacingExerciseId,
    pendingChanges, tempSetIdCounter
dataVars == <<originalWorkout, workout, loading>>
durationVars == <<tempStartDateTime, tempEndDateTime, showEditDurationDialog>>
scratchVars == <<tempWorkoutName, tempIntensity, tempWorkoutNotes, durationVars>>
dialogVars == <<editingSet, addingSetToExercise, showExerciseSelectionModal,
                exerciseSelectionMode, replacingExerciseId>>

\* asynchronous continuations in flight
VARIABLES
    mountFetch,         \* fetchWorkoutSummary started by the [id] effect awaits its response
    presFetch,          \* fetchWorkoutSummaryWithPendingPreservation awaits: <<>> or <<saved>>
    defFetch,           \* handleAddSelectedExercises awaits /api/exercises/:id: <<>> or <<closure>>
    commit              \* handleSaveAllChanges run: closure, position and issued calls
asyncVars == <<mountFetch, presFetch, defFetch, commit>>

\* what the last render pass of the page computed: <<>> or <<[first, second]>>
VARIABLES rendered

vars == <<srvHeader, srvEx, srvSets, srvSeq, phase, blob, blobTimer, lastClock,
          mounts, userOps, originalWorkout, workout, loading,
          tempWorkoutName, tempIntensity, tempWorkoutNotes, tempStartDateTime,
          tempEndDateTime, showEditDurationDialog, isSaving, isRestoring, editingSet,
          addingSetToExercise, showExerciseSelectionModal, exerciseSelectionMode,
          replacingExerciseId, pendingChanges, tempSetIdCounter,
          mountFetch, presFetch, defFetch, commit, rendered>>

\* useState initial value of pendingChanges (lines 119-124)
EmptyPendingChanges ==
    [workout |-> NoFields, sets |-> EmptyMap, exercises |-> EmptyMap,
     newSets |-> EmptyMap, newExercises |-> EmptyMap]

\* ------------------------------------------------------ projection engine
\* Array.prototype.sort with (a, b) => a.set_number - b.set_number (stable)
RECURSIVE InsertStable(_, _)
InsertStable(sorted, x) ==
    IF sorted = <<>> THEN <<x>>
    ELSE IF Head(sorted).set_number <= x.set_number
         THEN <<Head(sorted)>> \o InsertStable(Tail(sorted), x)
         ELSE <<x>> \o sorted
RECURSIVE SortBySetNumber(_)
SortBySetNumber(s) ==
    IF s = <<>> THEN <<>>
    ELSE InsertStable(SortBySetNumber(SubSeq(s, 1, Len(s) - 1)), s[Len(s)])

\* key of pendingChanges.newSets is `${exerciseId}-${tempId}`, kept as <<exerciseId, tempId>>;
\* parseInt(key.split('-')[0]) of a key whose first number is negative is NaN
KeyExerciseId(key) == IF key[1] >= 0 THEN key[1] ELSE NaN
KeyStartsWith(key, exId) == key[1] = exId
KeyTempId(key) == IF key[1] >= 0 THEN key[2] ELSE -key[1]

\* getDisplaySets without the filter on pending deletes
getDisplaySetsOf_KeepsDeleted(pc, exercise) ==
    LET overlay(set) ==
            IF MapHas(pc.sets, set.id) /\ MapGet(pc.sets, set.id).type = "edit"
            THEN Spread(set, MapGet(pc.sets, set.id).setData)
            ELSE set
        mapped == [i \in 1..Len(exercise.sets) |-> overlay(exercise.sets[i])]
        mine == {i \in 1..Len(pc.newSets) : KeyStartsWith(pc.newSets[i][1], exercise.id)}
        entries == SeqFilterIdx(pc.newSets, mine, 1)
        newSetsForExercise ==
            [i \in 1..Len(entries) |->
                Spread(entries[i][2], [id |-> -KeyTempId(entries[i][1])])]
    IN  SortBySetNumber(mapped \o newSetsForExercise)
getDisplaySetsOf(pc, exercise) ==
    LET overlay(set) ==
            IF MapHas(pc.sets, set.id) /\ MapGet(pc.sets, set.id).type = "edit"
            THEN Spread(set, MapGet(pc.sets, set.id).setData)
            ELSE set
        mapped == [i \in 1..Len(exercise.sets) |-> overlay(exercise.sets[i])]
        keep == {i \in 1..Len(mapped) :
                    ~(MapHas(pc.sets, mapped[i].id)
                      /\ MapGet(pc.sets, mapped[i].id).type = "delete")}
        kept == SeqFilterIdx(mapped, keep, 1)
        mine == {i \in 1..Len(pc.newSets) : KeyStartsWith(pc.newSets[i][1], exercise.id)}
        entries == SeqFilterIdx(pc.newSets, mine, 1)
        newSetsForExercise ==
            [i \in 1..Len(entries) |->
                Spread(entries[i][2], [id |-> -KeyTempId(entries[i][1])])]
    IN  SortBySetNumber(kept \o newSetsForExercise)
getDisplaySets(exercise) == getDisplaySetsOf(pendingChanges, exercise)

\* getDisplayExercises with the pending-new instances placed first
getDisplayExercisesOf_NewFirst(pc, w) ==
    IF w = <<>> THEN <<>>
    ELSE
    LET exs == w[1].exercises
        overlay(e) ==
            IF MapHas(pc.exercises, e.id)
               /\ MapGet(pc.exercises, e.id).type = "replace"
               /\ MapGet(pc.exercises, e.id).newExerciseName # ""
            THEN [e EXCEPT !.name = MapGet(pc.exercises, e.id).newExerciseName,
                           !.exercise_id =
                               IF MapGet(pc.exercises, e.id).newExerciseId # 0
                               THEN MapGet(pc.exercises, e.id).newExerciseId
                               ELSE e.exercise_id]
            ELSE e
        mapped == [i \in 1..Len(exs) |-> overlay(exs[i])]
        keep == {i \in 1..Len(mapped) :
                    ~(MapHas(pc.exercises, mapped[i].id)
                      /\ MapGet(pc.exercises, mapped[i].id).type = "delete")}
        existingExercises == SeqFilterIdx(mapped, keep, 1)
        newExercises ==
            [i \in 1..Len(pc.newExercises) |->
                [id |-> -pc.newExercises[i][2].tempId,
                 exercise_id |-> pc.newExercises[i][2].exerciseId,
                 order_index |-> Len(existingExercises) + i - 1,
                 name |-> pc.newExercises[i][2].name,
                 sets |-> <<>>]]
    IN  newExercises \o existingExercises
getDisplayExercisesOf(pc, w) ==
    IF w = <<>> THEN <<>>
    ELSE
    LET exs == w[1].exercises
        overlay(e) ==
            IF MapHas(pc.exercises, e.id)
               /\ MapGet(pc.exercises, e.id).type = "replace"
               /\ MapGet(pc.exercises, e.id).newExerciseName # ""
            THEN [e EXCEPT !.name = MapGet(pc.exercises, e.id).newExerciseName,
                           !.exercise_id =
                               IF MapGet(pc.exercises, e.id).newExerciseId # 0
                               THEN MapGet(pc.exercises, e.id).newExerciseId
                               ELSE e.exercise_id]
            ELSE e
        mapped == [i \in 1..Len(exs) |-> overlay(exs[i])]
        keep == {i \in 1..Len(mapped) :
                    ~(MapHas(pc.exercises, mapped[i].id)
                      /\ MapGet(pc.exercises, mapped[i].id).type = "delete")}
        existingExercises == SeqFilterIdx(mapped, keep, 1)
        newExercises ==
            [i \in 1..Len(pc.newExercises) |->
                [id |-> -pc.newExercises[i][2].tempId,
                 exercise_id |-> pc.newExercises[i][2].exerciseId,
                 order_index |-> Len(existingExercises) + i - 1,
                 name |-> pc.newExercises[i][2].name,
                 sets |-> <<>>]]
    IN  existingExercises \o newExercises
getDisplayExercises == getDisplayExercisesOf(pendingChanges, workout)

\* variant: the pending-new instances are not counted
hasPendingChangesOf_NoNewExercises(pc) ==
    \/ Len(pc.sets) > 0
    \/ Len(pc.exercises) > 0
    \/ Len(pc.newSets) > 0
    \/ DOMAIN pc.workout # {}
hasPendingChangesOf(pc) ==
    \/ Len(pc.sets) > 0
    \/ Len(pc.exercises) > 0
    \/ Len(pc.newSets) > 0
    \/ Len(pc.newExercises) > 0
    \/ DOMAIN pc.workout # {}
hasPendingChanges == hasPendingChangesOf(pendingChanges)
shouldShowSaveBar == hasPendingChanges \/ isRestoring

\* a call of getDisplaySets as the arrays see it: the value returned, and the
\* argument and the ledger as the call leaves them. `[...exercise.sets]`, map and
\* filter build new arrays, the new sets are spread copies, and push and sort act
\* on the local array (lines 464-488)
\* variant: the new sets are pushed onto exercise.sets and it is sorted in place
getDisplaySetsCall_InPlace(pc, exercise) ==
    [result |-> getDisplaySetsOf(pc, exercise),
     exercise |-> [exercise EXCEPT !.sets = getDisplaySetsOf(pc, exercise)],
     pendingChanges |-> pc]
getDisplaySetsCall(pc, exercise) ==
    [result |-> getDisplaySetsOf(pc, exercise),
     exercise |-> exercise,
     pendingChanges |-> pc]
\* a call of getDisplayExercises: map, filter and the array literal build new
\* arrays, a replaced instance is a spread copy that shares its sets array, the
\* others are the working copy's own objects (lines 493-525)
getDisplayExercisesCall(pc, w) ==
    [result |-> getDisplayExercisesOf(pc, w), workout |-> w, pendingChanges |-> pc]
\* one pass over the page: getDisplayExercises, then getDisplaySets of every
\* instance it returned (lines 1247, 1439-1440); the instances share their sets
\* arrays with the working copy
ProjectionPass(pc, w) ==
    LET exercises == getDisplayExercisesCall(pc, w)
        calls == [i \in 1..Len(exercises.result) |->
                     getDisplaySetsCall(exercises.pendingChanges, exercises.result[i])]
        after(e) ==
            IF \E i \in 1..Len(calls) : calls[i].exercise.id = e.id
            THEN [e EXCEPT !.sets =
                     calls[CHOOSE i \in 1..Len(calls) :
                               calls[i].exercise.id = e.id].exercise.sets]
            ELSE e
    IN  [output |-> [exercises |-> exercises.result,
                     sets |-> [i \in 1..Len(calls) |-> calls[i].result]],
         workout |->
             IF exercises.workout = <<>> THEN <<>>
             ELSE <<[exercises.workout[1] EXCEPT !.exercises =
                        [k \in 1..Len(@) |-> after(@[k])]]>>,
         pendingChanges |->
             IF calls = <<>> THEN exercises.pendingChanges
             ELSE calls[Len(calls)].pendingChanges]
\* the component function runs the projection twice per render, for the
\* statistics (lines 430-437, 1245) and for the list
RenderPasses(pc, w) ==
    UNION {{[first |-> first.output, second |-> second.output,
             workout |-> second.workout, pendingChanges |-> second.pendingChanges] :
               second \in {ProjectionPass(first.pendingChanges, first.workout)}} :
               first \in {ProjectionPass(pc, w)}}

\* ------------------------------------------------------------ JSON hand-off
TextFields == {"notes", "name", "newExerciseName", "type"}
IsUndefined(f, v) == IF f \in TextFields THEN v = "" ELSE v = 0
\* JSON.stringify of an object drops the properties whose value is undefined
JsonObject(o) == [f \in {g \in DOMAIN o : ~IsUndefined(g, o[g])} |-> o[f]]
\* property read of an object that may lack the property (undefined -> 0 / "")
Field(o, f) == IF f \in DOMAIN o THEN o[f] ELSE IF f \in TextFields THEN "" ELSE 0

JsonSetChange(c) ==
    IF c.type = "edit" THEN [c EXCEPT !.setData = JsonObject(c.setData)] ELSE c
JsonPendingChanges(pc) ==
    [workout |-> pc.workout,
     sets |-> [i \in 1..Len(pc.sets) |-> <<pc.sets[i][1], JsonSetChange(pc.sets[i][2])>>],
     exercises |-> pc.exercises,
     newSets |-> [i \in 1..Len(pc.newSets) |->
                    <<pc.newSets[i][1], JsonObject(pc.newSets[i][2])>>],
     newExercises |-> pc.newExercises]

\* ------------------------------------------------------------- reconciler
\* data.exercises.some(ex => ex.sets.some(set => set.id === setId))
SetExists(data, setId) ==
    \E i \in 1..Len(data.exercises) :
        \E j \in 1..Len(data.exercises[i].sets) : data.exercises[i].sets[j].id = setId
currentExerciseIds(data) == {data.exercises[i].id : i \in 1..Len(data.exercises)}

\* variant: the stored set changes are taken over unfiltered
validPendingSets_Unfiltered(saved, data) == saved.sets
validPendingSets(saved, data) ==
    SeqFilterIdx(saved.sets,
                 {i \in 1..Len(saved.sets) : SetExists(data, saved.sets[i][1])}, 1)
validPendingExercises(saved, data) ==
    SeqFilterIdx(saved.exercises,
                 {i \in 1..Len(saved.exercises) :
                      saved.exercises[i][1] \in currentExerciseIds(data)}, 1)
validNewSets(saved, data) ==
    SeqFilterIdx(saved.newSets,
                 {i \in 1..Len(saved.newSets) :
                      KeyExerciseId(saved.newSets[i][1]) \in currentExerciseIds(data)}, 1)
\* variant: new exercises are filtered like the changes to existing ones
validNewExercises_Filtered(saved, data) ==
    SeqFilterIdx(saved.newExercises,
                 {i \in 1..Len(saved.newExercises) :
                      saved.newExercises[i][1] \in currentExerciseIds(data)}, 1)
validNewExercises(saved, data) ==
    SeqFilterIdx(saved.newExercises, 1..Len(saved.newExercises), 1)

finalPendingChanges(saved, data) ==
    [workout |-> saved.workout,
     sets |-> validPendingSets(saved, data),
     exercises |-> validPendingExercises(saved, data),
     newSets |-> validNewSets(saved, data),
     newExercises |-> validNewExercises(saved, data)]

\* --------------------------------------------------------------- lifecycle
IdleCommit ==
    [pc |-> "idle", closure |-> EmptyPendingChanges, stage |-> 0, idx |-> 0,
     calls |-> <<>>, outcome |-> "none", error |-> "", runs |-> 0]

\* the screen has been opened from the history list and its first fetch has
\* answered: the store's workout is on display and nothing is pending
Init ==
    /\ srvHeader = InitHeader /\ srvEx = InitEx /\ srvSets = InitSets
    /\ srvSeq = [ex |-> 2, set |-> 2]
    /\ phase = "open" /\ blob = <<>> /\ blobTimer = FALSE /\ lastClock = 0
    /\ mounts = 0 /\ userOps = 0
    /\ originalWorkout \in {<<d>> : d \in GetWorkout} /\ workout = originalWorkout
    /\ loading = FALSE
    /\ tempWorkoutName = InitHeader.name /\ tempIntensity = InitHeader.intensity_level
    /\ tempWorkoutNotes = InitHeader.notes
    /\ tempStartDateTime = <<>> /\ tempEndDateTime = <<>>
    /\ showEditDurationDialog = FALSE
    /\ isSaving = FALSE /\ isRestoring = FALSE
    /\ editingSet = <<>> /\ addingSetToExercise = 0
    /\ showExerciseSelectionModal = FALSE /\ exerciseSelectionMode = "add"
    /\ replacingExerciseId = 0
    /\ pendingChanges = EmptyPendingChanges /\ tempSetIdCounter = 1
    /\ mountFetch = FALSE /\ presFetch = <<>> /\ defFetch = <<>>
    /\ commit = IdleCommit
    /\ \E pass \in RenderPasses(pendingChanges, workout) :
          rendered = <<[first |-> pass.first, second |-> pass.second]>>

\* React calls the component function: the page is rendered from the working
\* copy and the ledger (lines 1245-1247, 1439-1440)
Render ==
    /\ phase = "open" /\ ~loading /\ workout # <<>>
    /\ \E pass \in RenderPasses(pendingChanges, workout) :
          /\ rendered' = <<[first |-> pass.first, second |-> pass.second]>>
          /\ workout' = pass.workout
          /\ pendingChanges' = pass.pendingChanges
    /\ UNCHANGED <<srvVars, phase, envVars, originalWorkout, loading, scratchVars,
                   isSaving, isRestoring, dialogVars, tempSetIdCounter, asyncVars>>

\* the component leaves the screen: its state is gone and the continuations
\* still in flight no longer reach it
Unmounted(to) ==
    /\ phase' = to
    /\ originalWorkout' = <<>> /\ workout' = <<>> /\ loading' = TRUE
    /\ tempWorkoutName' = "" /\ tempIntensity' = DefaultIntensity
    /\ tempWorkoutNotes' = ""
    /\ tempStartDateTime' = <<>> /\ tempEndDateTime' = <<>>
    /\ showEditDurationDialog' = FALSE
    /\ isSaving' = FALSE /\ isRestoring' = FALSE
    /\ editingSet' = <<>> /\ addingSetToExercise' = 0
    /\ showExerciseSelectionModal' = FALSE /\ exerciseSelectionMode' = "add"
    /\ replacingExerciseId' = 0
    /\ pendingChanges' = EmptyPendingChanges /\ tempSetIdCounter' = 1
    /\ mountFetch' = FALSE /\ presFetch' = <<>> /\ defFetch' = <<>>
    /\ commit' = IdleCommit

\* synchronous part of fetchWorkoutSummaryWithPendingPreservation (lines 215-296),
\* evaluated in the render whose state is (pc, counter)
\* a stored text that JSON.parse rejects; a parsed value without pendingChanges
\* makes the read of parsed.pendingChanges.workout throw (lines 242-256)
Unparsable == [text |-> "garbled"]
ParseFails(b) == "pendingChanges" \notin DOMAIN b
\* the saved ledger before a blob is read: it has no newExercises (lines 221-226)
InitialSaved ==
    [workout |-> NoFields, sets |-> EmptyMap, exercises |-> EmptyMap,
     newSets |-> EmptyMap]
\* new Map(parsed.pendingChanges.sets || []): an absent collection is an empty Map
Collection(p, f) == IF f \in DOMAIN p THEN p[f] ELSE EmptyMap
ParsedLedger(p) ==
    [workout |-> IF "workout" \in DOMAIN p THEN p.workout ELSE NoFields,
     sets |-> Collection(p, "sets"), exercises |-> Collection(p, "exercises"),
     newSets |-> Collection(p, "newSets"),
     newExercises |-> Collection(p, "newExercises")]

\* variant: the counter of the blob is not taken over
SavedState_FreshCounter(pc, counter) ==
    IF blob # <<>>
    THEN [pc |-> blob[1].pendingChanges, counter |-> counter]
    ELSE [pc |-> pc, counter |-> counter]
\* variant: without a blob the saved ledger keeps its initial value (lines 221-226)
SavedState_KeepsInitial(pc, counter) ==
    IF blob # <<>>
    THEN [pc |-> blob[1].pendingChanges,
          counter |-> IF blob[1].tempSetIdCounter # 0
                      THEN blob[1].tempSetIdCounter ELSE counter]
    ELSE [pc |-> [workout |-> NoFields, sets |-> EmptyMap, exercises |-> EmptyMap,
                  newSets |-> EmptyMap],
          counter |-> counter]
SavedState(pc, counter) ==
    IF blob # <<>>
    THEN IF ParseFails(blob[1])
         THEN [pc |-> InitialSaved, counter |-> counter]
         ELSE [pc |-> ParsedLedger(blob[1].pendingChanges),
               counter |-> IF Field(blob[1], "tempSetIdCounter") # 0
                           THEN blob[1].tempSetIdCounter ELSE counter]
    ELSE [pc |-> pc, counter |-> counter]

\* mount of /workouts/:id; refresh is location.state.refresh (lines 132-183)
Mount(refresh) ==
    /\ phase \in {"closed", "suspended"}
    /\ refresh => phase = "suspended"
    /\ mounts < MaxMounts
    /\ mounts' = mounts + 1
    /\ phase' = "open"
    /\ originalWorkout' = <<>> /\ workout' = <<>> /\ loading' = TRUE
    /\ tempWorkoutName' = "" /\ tempIntensity' = DefaultIntensity
    /\ tempWorkoutNotes' = ""
    /\ tempStartDateTime' = <<>> /\ tempEndDateTime' = <<>>
    /\ showEditDurationDialog' = FALSE
    /\ isSaving' = FALSE
    /\ editingSet' = <<>> /\ addingSetToExercise' = 0
    /\ showExerciseSelectionModal' = FALSE /\ exerciseSelectionMode' = "add"
    /\ replacingExerciseId' = 0
    /\ pendingChanges' = EmptyPendingChanges /\ tempSetIdCounter' = 1
    /\ mountFetch' = TRUE
    /\ defFetch' = <<>> /\ commit' = IdleCommit
    /\ IF refresh
       THEN /\ isRestoring' = TRUE
            /\ presFetch' = <<SavedState(EmptyPendingChanges, 1)>>
            /\ blobTimer' = (blobTimer \/ (blob # <<>> /\ ~ParseFails(blob[1])))
       ELSE /\ isRestoring' = FALSE
            /\ presFetch' = <<>>
            /\ blobTimer' = blobTimer
    /\ UNCHANGED <<rendered, srvVars, blob, lastClock, userOps>>


\* the page is visited once more after the bounded visits (lines 132-183)
MountAgain(refresh) ==
    /\ phase \in {"closed", "suspended"}
    /\ refresh => phase = "suspended"
    /\ mounts >= MaxMounts /\ mounts < MaxMounts + MaxRemounts
    /\ mounts' = mounts + 1
    /\ phase' = "open"
    /\ originalWorkout' = <<>> /\ workout' = <<>> /\ loading' = TRUE
    /\ tempWorkoutName' = "" /\ tempIntensity' = DefaultIntensity
    /\ tempWorkoutNotes' = ""
    /\ tempStartDateTime' = <<>> /\ tempEndDateTime' = <<>>
    /\ showEditDurationDialog' = FALSE
    /\ isSaving' = FALSE
    /\ editingSet' = <<>> /\ addingSetToExercise' = 0
    /\ showExerciseSelectionModal' = FALSE /\ exerciseSelectionMode' = "add"
    /\ replacingExerciseId' = 0
    /\ pendingChanges' = EmptyPendingChanges /\ tempSetIdCounter' = 1
    /\ mountFetch' = TRUE
    /\ defFetch' = <<>> /\ commit' = IdleCommit
    /\ IF refresh
       THEN /\ isRestoring' = TRUE
            /\ presFetch' = <<SavedState(EmptyPendingChanges, 1)>>
            /\ blobTimer' = (blobTimer \/ (blob # <<>> /\ ~ParseFails(blob[1])))
       ELSE /\ isRestoring' = FALSE
            /\ presFetch' = <<>>
            /\ blobTimer' = blobTimer
    /\ UNCHANGED <<rendered, srvVars, blob, lastClock, userOps>>

\* setTimeout(() => sessionStorage.removeItem(preservationKey), 30000) fires
BlobExpire ==
    /\ blobTimer
    /\ blob' = <<>> /\ blobTimer' = FALSE
    /\ UNCHANGED <<rendered, srvVars, phase, lastClock, mounts, userOps,
                   dataVars, scratchVars, isSaving, isRestoring, dialogVars,
                   pendingChanges, tempSetIdCounter, asyncVars>>

\* data.name || generateWorkoutTitle(...): names of the model are never empty
TitleOf(data) == IF data.name # "" THEN data.name ELSE "Workout"
\* data.notes || '': a null note reads as the empty text
NotesOf(data) == IF data.notes # Null THEN data.notes ELSE ""
IntensityOf(data) ==
    IF data.intensity_level # 0 THEN data.intensity_level ELSE DefaultIntensity

\* fetchWorkoutSummary, response ok (lines 188-202, 210-212)
ApplyFetch(data) ==
    /\ originalWorkout' = <<data>>
    /\ workout' = <<data>>
    /\ tempWorkoutName' = TitleOf(data)
    /\ tempIntensity' = IntensityOf(data)
    /\ tempWorkoutNotes' = NotesOf(data)
    /\ pendingChanges' = EmptyPendingChanges
    /\ loading' = FALSE
    /\ UNCHANGED durationVars

\* the response of the fetch started by the [id] effect arrives
MountFetchOk ==
    /\ phase = "open" /\ mountFetch
    /\ \E data \in GetWorkout : ApplyFetch(data)
    /\ mountFetch' = FALSE
    /\ UNCHANGED <<rendered, srvVars, phase, envVars, isSaving, isRestoring, dialogVars,
                   tempSetIdCounter, presFetch, defFetch, commit>>

\* not ok or thrown: navigate('/history') (lines 203-209)
MountFetchFail ==
    /\ phase = "open" /\ mountFetch
    /\ Unmounted("closed")
    /\ UNCHANGED <<rendered, srvVars, blob, blobTimer, lastClock, mounts, userOps>>

\* fetchWorkoutSummaryWithPendingPreservation, response ok (lines 298-397, 407-409)
PresFetchOk ==
    /\ phase = "open" /\ presFetch # <<>>
    /\ IF "newExercises" \in DOMAIN presFetch[1].pc
       THEN /\ \E data \in GetWorkout :
                LET saved == presFetch[1].pc
                    updatedWorkout == Spread(data, saved.workout)
                IN  /\ originalWorkout' = <<data>>
                    /\ workout' = <<updatedWorkout>>
                    /\ tempWorkoutName' = IF "name" \in DOMAIN saved.workout
                                          THEN saved.workout.name ELSE TitleOf(data)
                    /\ tempIntensity' = IF "intensity_level" \in DOMAIN saved.workout
                                         THEN saved.workout.intensity_level
                                         ELSE IntensityOf(data)
                    /\ tempWorkoutNotes' =
                          IF "notes" \in DOMAIN saved.workout /\ saved.workout.notes # Null
                          THEN saved.workout.notes ELSE NotesOf(data)
                    /\ tempStartDateTime' = IF "started_at" \in DOMAIN saved.workout
                                            THEN saved.workout.started_at
                                            ELSE data.started_at
                    /\ tempEndDateTime' = IF "completed_at" \in DOMAIN saved.workout
                                          THEN saved.workout.completed_at
                                          ELSE data.completed_at
                    /\ pendingChanges' = finalPendingChanges(saved, data)
            /\ tempSetIdCounter' = presFetch[1].counter
            /\ isRestoring' = FALSE
            /\ loading' = FALSE
            /\ presFetch' = <<>>
            /\ UNCHANGED <<rendered, srvVars, phase, envVars, isSaving, dialogVars,
                           showEditDurationDialog, mountFetch, defFetch, commit>>
       \* for (... of savedPendingChanges.newExercises) throws on undefined
       \* (line 367); the catch navigates to /history (lines 403-406)
       ELSE /\ Unmounted("closed")
            /\ UNCHANGED <<rendered, srvVars, blob, blobTimer, lastClock, mounts,
                           userOps>>

\* not ok or thrown: navigate('/history') (lines 398-406)
\* variant: a failed resume fetch still installs the saved ledger and stays
PresFetchFail_Installs ==
    /\ phase = "open" /\ presFetch # <<>>
    /\ pendingChanges' = presFetch[1].pc
    /\ tempSetIdCounter' = presFetch[1].counter
    /\ isRestoring' = FALSE /\ loading' = FALSE
    /\ presFetch' = <<>>
    /\ UNCHANGED <<rendered, srvVars, phase, envVars, originalWorkout, workout,
                   scratchVars, isSaving, dialogVars, mountFetch, defFetch, commit>>
PresFetchFail ==
    /\ phase = "open" /\ presFetch # <<>>
    /\ Unmounted("closed")
    /\ UNCHANGED <<rendered, srvVars, blob, blobTimer, lastClock, mounts, userOps>>

\* ------------------------------------------------------------ user actions
\* the page is rendered and no modal dialog covers it
Interactive ==
    /\ phase = "open" /\ ~loading /\ workout # <<>>
    /\ editingSet = <<>> /\ addingSetToExercise = 0 /\ ~showExerciseSelectionModal
    /\ ~showEditDurationDialog
\* the exploration records at most MaxUserOps changes; a dialog that could
\* record nothing any more is not opened
CanRecord == userOps < MaxUserOps

\* what the user may type in the notes and the duration dialogs; a
\* datetime-local text is <<minute>>: it has no seconds
NotesInputs == {" ", "cold"}
TimeInputs == {<<2>>, <<4>>}

\* what the user may type in the set dialogs: stored weight, reps, notes
SetInputs == {[weight |-> 0, reps |-> 0, notes |-> ""],
              [weight |-> 70, reps |-> 10, notes |-> ""]}
NewSetInputs == {[weight |-> 70, reps |-> 10, notes |-> ""]}
TitleInputs == {"Pull"}
IntensityInputs == {4}

\* String.prototype.trim on the texts of the model
Trim(text) == IF text = " " THEN "" ELSE text
\* formatForInput(new Date(iso)): the seconds are dropped (lines 640-651)
formatForInput(iso) == <<iso[1]>>
\* new Date(text).toISOString(): a datetime-local text is read at second 0
toISOString(text) == IF Len(text) = 1 THEN <<text[1], 0>> ELSE text
\* Date.getTime() in seconds, and Math.round of a span in minutes
getTime(iso) == iso[1] * 60 + iso[2]
RoundMinutes(seconds) == (seconds + 30) \div 60

DisplayedExercises == {getDisplayExercises[i] : i \in 1..Len(getDisplayExercises)}
DisplayedSets ==
    UNION {{getDisplaySets(e)[j] : j \in 1..Len(getDisplaySets(e))} :
              e \in DisplayedExercises}

\* the title input's onChange, then handleSaveTitle (lines 627-634)
TypeTitle(v) ==
    /\ Interactive /\ tempWorkoutName # v
    /\ tempWorkoutName' = v
    /\ UNCHANGED <<rendered, srvVars, phase, envVars, dataVars, tempIntensity,
                   tempWorkoutNotes, durationVars, isSaving,
                   isRestoring, dialogVars, pendingChanges, tempSetIdCounter, asyncVars>>
\* variant: the title patch replaces the pending header patch wholesale
handleSaveTitle_Replaces ==
    /\ Interactive /\ CanRecord
    /\ pendingChanges' = [pendingChanges EXCEPT
                            !.workout = [name |-> tempWorkoutName]]
    /\ workout' = <<[workout[1] EXCEPT !.name = tempWorkoutName]>>
    /\ userOps' = userOps + 1
    /\ UNCHANGED <<rendered, srvVars, phase, blob, blobTimer, lastClock, mounts,
                   originalWorkout, loading, scratchVars, isSaving, isRestoring,
                   dialogVars, tempSetIdCounter, asyncVars>>
handleSaveTitle ==
    /\ Interactive /\ CanRecord
    /\ pendingChanges' = [pendingChanges EXCEPT
                            !.workout = Spread(@, [name |-> tempWorkoutName])]
    /\ workout' = <<[workout[1] EXCEPT !.name = tempWorkoutName]>>
    /\ userOps' = userOps + 1
    /\ UNCHANGED <<rendered, srvVars, phase, blob, blobTimer, lastClock, mounts,
                   originalWorkout, loading, scratchVars, isSaving, isRestoring,
                   dialogVars, tempSetIdCounter, asyncVars>>

\* the notes textarea's onChange, then handleSaveNotes (lines 712-719)
TypeNotes(v) ==
    /\ Interactive /\ tempWorkoutNotes # v
    /\ tempWorkoutNotes' = v
    /\ UNCHANGED <<rendered, srvVars, phase, envVars, dataVars, tempWorkoutName, tempIntensity,
                   durationVars, isSaving, isRestoring, dialogVars, pendingChanges,
                   tempSetIdCounter, asyncVars>>
handleSaveNotes ==
    /\ Interactive /\ CanRecord
    /\ LET notes == IF Trim(tempWorkoutNotes) # "" THEN Trim(tempWorkoutNotes) ELSE Null
       IN  /\ pendingChanges' = [pendingChanges EXCEPT
                                   !.workout = Spread(@, [notes |-> notes])]
           /\ workout' = <<[workout[1] EXCEPT !.notes = notes]>>
    /\ userOps' = userOps + 1
    /\ UNCHANGED <<rendered, srvVars, phase, blob, blobTimer, lastClock, mounts,
                   originalWorkout, loading, scratchVars, isSaving, isRestoring,
                   dialogVars, tempSetIdCounter, asyncVars>>

\* the duration dialog (lines 636-691, 1730-1783)
handleEditDuration ==
    /\ Interactive /\ CanRecord
    /\ tempStartDateTime' = formatForInput(workout[1].started_at)
    /\ tempEndDateTime' = formatForInput(workout[1].completed_at)
    /\ showEditDurationDialog' = TRUE
    /\ UNCHANGED <<rendered, srvVars, phase, envVars, dataVars, tempWorkoutName, tempIntensity,
                   tempWorkoutNotes, isSaving, isRestoring, dialogVars,
                   pendingChanges, tempSetIdCounter, asyncVars>>
TypeDuration(start, end) ==
    /\ phase = "open" /\ showEditDurationDialog
    /\ <<tempStartDateTime, tempEndDateTime>> # <<start, end>>
    /\ tempStartDateTime' = start /\ tempEndDateTime' = end
    /\ UNCHANGED <<rendered, srvVars, phase, envVars, dataVars, tempWorkoutName, tempIntensity,
                   tempWorkoutNotes, showEditDurationDialog, isSaving, isRestoring,
                   dialogVars, pendingChanges, tempSetIdCounter, asyncVars>>
CancelDuration ==
    /\ phase = "open" /\ showEditDurationDialog
    /\ showEditDurationDialog' = FALSE
    /\ UNCHANGED <<rendered, srvVars, phase, envVars, dataVars, tempWorkoutName, tempIntensity,
                   tempWorkoutNotes, tempStartDateTime, tempEndDateTime, isSaving,
                   isRestoring, dialogVars, pendingChanges, tempSetIdCounter,
                   asyncVars>>
handleSaveDuration ==
    /\ phase = "open" /\ showEditDurationDialog /\ workout # <<>>
    /\ tempStartDateTime # <<>> /\ tempEndDateTime # <<>>
    /\ LET startTime == toISOString(tempStartDateTime)
           endTime == toISOString(tempEndDateTime)
           patch == [started_at |-> startTime, completed_at |-> endTime,
                     duration_minutes |->
                         RoundMinutes(getTime(endTime) - getTime(startTime))]
       IN  /\ getTime(endTime) > getTime(startTime)
           /\ pendingChanges' = [pendingChanges EXCEPT !.workout = Spread(@, patch)]
           /\ workout' = <<Spread(workout[1], patch)>>
    /\ showEditDurationDialog' = FALSE
    /\ userOps' = userOps + 1
    /\ UNCHANGED <<rendered, srvVars, phase, blob, blobTimer, lastClock, mounts,
                   originalWorkout, loading, tempWorkoutName, tempIntensity,
                   tempWorkoutNotes, tempStartDateTime, tempEndDateTime, isSaving,
                   isRestoring, dialogVars, tempSetIdCounter, asyncVars>>

\* the intensity picker's onClick, then handleSaveIntensity (lines 698-705)
SelectIntensity(v) ==
    /\ Interactive /\ tempIntensity # v
    /\ tempIntensity' = v
    /\ UNCHANGED <<rendered, srvVars, phase, envVars, dataVars, tempWorkoutName,
                   tempWorkoutNotes, durationVars, isSaving,
                   isRestoring, dialogVars, pendingChanges, tempSetIdCounter, asyncVars>>
handleSaveIntensity ==
    /\ Interactive /\ CanRecord
    /\ pendingChanges' = [pendingChanges EXCEPT
                            !.workout = Spread(@, [intensity_level |-> tempIntensity])]
    /\ workout' = <<[workout[1] EXCEPT !.intensity_level = tempIntensity]>>
    /\ userOps' = userOps + 1
    /\ UNCHANGED <<rendered, srvVars, phase, blob, blobTimer, lastClock, mounts,
                   originalWorkout, loading, scratchVars, isSaving, isRestoring,
                   dialogVars, tempSetIdCounter, asyncVars>>

\* "Edit" of a displayed set's menu (lines 743-750) and the dialog's Cancel
handleEditSet(set) ==
    /\ Interactive /\ CanRecord /\ set \in DisplayedSets
    /\ editingSet' = <<set>>
    /\ UNCHANGED <<rendered, srvVars, phase, envVars, dataVars, scratchVars, isSaving, isRestoring,
                   addingSetToExercise, showExerciseSelectionModal,
                   exerciseSelectionMode, replacingExerciseId,
                   pendingChanges, tempSetIdCounter, asyncVars>>
CancelEditSet ==
    /\ phase = "open" /\ editingSet # <<>>
    /\ editingSet' = <<>>
    /\ UNCHANGED <<rendered, srvVars, phase, envVars, dataVars, scratchVars, isSaving, isRestoring,
                   addingSetToExercise, showExerciseSelectionModal,
                   exerciseSelectionMode, replacingExerciseId,
                   pendingChanges, tempSetIdCounter, asyncVars>>

\* updatedSetData of handleUpdateSet / the data fields of handleSaveNewSet
updatedSetData(in) ==
    [weight_lbs |-> IF in.weight > 0 THEN in.weight ELSE 0,
     reps |-> IF in.reps > 0 THEN in.reps ELSE 0,
     notes |-> in.notes]

\* setWorkout updater of handleUpdateSet (lines 780-791)
PatchWorkoutSets(w, setId, data) ==
    [w EXCEPT !.exercises =
        [i \in 1..Len(w.exercises) |->
            [w.exercises[i] EXCEPT !.sets =
                [j \in 1..Len(w.exercises[i].sets) |->
                    IF w.exercises[i].sets[j].id = setId
                    THEN Spread(w.exercises[i].sets[j], data)
                    ELSE w.exercises[i].sets[j]]]]]

\* "Update" of the edit-set dialog (lines 752-798)
\* variant: a second edit of a set is merged into the patch already pending
handleUpdateSet_Stacks(in) ==
    /\ phase = "open" /\ editingSet # <<>> /\ CanRecord
    /\ pendingChanges' = [pendingChanges EXCEPT
          !.sets = MapSet(@, editingSet[1].id,
                          [id |-> editingSet[1].id, type |-> "edit",
                           setData |->
                               IF MapHas(@, editingSet[1].id)
                                  /\ MapGet(@, editingSet[1].id).type = "edit"
                               THEN [f \in DOMAIN updatedSetData(in) |->
                                        IF IsUndefined(f, updatedSetData(in)[f])
                                        THEN MapGet(@, editingSet[1].id).setData[f]
                                        ELSE updatedSetData(in)[f]]
                               ELSE updatedSetData(in)])]
    /\ workout' = IF workout = <<>> THEN workout
                  ELSE <<PatchWorkoutSets(workout[1], editingSet[1].id, updatedSetData(in))>>
    /\ editingSet' = <<>>
    /\ userOps' = userOps + 1
    /\ UNCHANGED <<rendered, srvVars, phase, blob, blobTimer, lastClock, mounts,
                   originalWorkout, loading, scratchVars, isSaving, isRestoring,
                   addingSetToExercise, showExerciseSelectionModal,
                   exerciseSelectionMode, replacingExerciseId,
                   tempSetIdCounter, asyncVars>>
handleUpdateSet(in) ==
    /\ phase = "open" /\ editingSet # <<>> /\ CanRecord
    /\ pendingChanges' = [pendingChanges EXCEPT
          !.sets = MapSet(@, editingSet[1].id,
                          [id |-> editingSet[1].id, type |-> "edit",
                           setData |-> updatedSetData(in)])]
    /\ workout' = IF workout = <<>> THEN workout
                  ELSE <<PatchWorkoutSets(workout[1], editingSet[1].id, updatedSetData(in))>>
    /\ editingSet' = <<>>
    /\ userOps' = userOps + 1
    /\ UNCHANGED <<rendered, srvVars, phase, blob, blobTimer, lastClock, mounts,
                   originalWorkout, loading, scratchVars, isSaving, isRestoring,
                   addingSetToExercise, showExerciseSelectionModal,
                   exerciseSelectionMode, replacingExerciseId,
                   tempSetIdCounter, asyncVars>>

\* "Delete" of a displayed set's menu, confirmed (lines 831-849)
handleDeleteSet(setId) ==
    /\ Interactive /\ CanRecord
    /\ setId \in {s.id : s \in DisplayedSets}
    /\ pendingChanges' = [pendingChanges EXCEPT
          !.sets = MapSet(@, setId, [id |-> setId, type |-> "delete"])]
    /\ userOps' = userOps + 1
    /\ UNCHANGED <<rendered, srvVars, phase, blob, blobTimer, lastClock, mounts,
                   dataVars, scratchVars, isSaving, isRestoring, dialogVars,
                   tempSetIdCounter, asyncVars>>

\* "Delete Exercise" of a displayed exercise's menu, confirmed (lines 800-829)
handleDeleteExercise(exerciseId) ==
    /\ Interactive /\ CanRecord
    /\ exerciseId \in {e.id : e \in DisplayedExercises}
    /\ IF exerciseId < 0
       THEN pendingChanges' = [pendingChanges EXCEPT
                !.newExercises = MapDelete(@, -exerciseId)]
       ELSE pendingChanges' = [pendingChanges EXCEPT
                !.exercises = MapSet(@, exerciseId,
                                     [id |-> exerciseId, type |-> "delete"])]
    /\ userOps' = userOps + 1
    /\ UNCHANGED <<rendered, srvVars, phase, blob, blobTimer, lastClock, mounts,
                   dataVars, scratchVars, isSaving, isRestoring, dialogVars,
                   tempSetIdCounter, asyncVars>>

\* "Delete Exercise" used once more after the bounded changes (lines 800-829)
LateDeleteExercise(exerciseId) ==
    /\ Interactive
    /\ userOps >= MaxUserOps /\ userOps < MaxUserOps + MaxLateOps
    /\ exerciseId \in {e.id : e \in DisplayedExercises}
    /\ IF exerciseId < 0
       THEN pendingChanges' = [pendingChanges EXCEPT
                !.newExercises = MapDelete(@, -exerciseId)]
       ELSE pendingChanges' = [pendingChanges EXCEPT
                !.exercises = MapSet(@, exerciseId,
                                     [id |-> exerciseId, type |-> "delete"])]
    /\ userOps' = userOps + 1
    /\ UNCHANGED <<rendered, srvVars, phase, blob, blobTimer, lastClock, mounts,
                   dataVars, scratchVars, isSaving, isRestoring, dialogVars,
                   tempSetIdCounter, asyncVars>>

\* "Replace Exercise" / "ADD EXERCISE" open the picker (lines 851-858, 935-942)
handleReplaceExercise(exerciseId) ==
    /\ Interactive /\ CanRecord
    /\ exerciseId \in {e.id : e \in DisplayedExercises}
    /\ exerciseSelectionMode' = "replace"
    /\ replacingExerciseId' = exerciseId
    /\ showExerciseSelectionModal' = TRUE
    /\ UNCHANGED <<rendered, srvVars, phase, envVars, dataVars, scratchVars, isSaving, isRestoring,
                   editingSet, addingSetToExercise, pendingChanges, tempSetIdCounter,
                   asyncVars>>
handleAddExercise ==
    /\ Interactive /\ CanRecord
    /\ exerciseSelectionMode' = "add"
    /\ replacingExerciseId' = 0
    /\ showExerciseSelectionModal' = TRUE
    /\ UNCHANGED <<rendered, srvVars, phase, envVars, dataVars, scratchVars, isSaving, isRestoring,
                   editingSet, addingSetToExercise, pendingChanges, tempSetIdCounter,
                   asyncVars>>
\* onClose of the picker (lines 1650-1654)
ModalClose ==
    /\ phase = "open" /\ showExerciseSelectionModal
    /\ showExerciseSelectionModal' = FALSE
    /\ exerciseSelectionMode' = "add"
    /\ replacingExerciseId' = 0
    /\ UNCHANGED <<rendered, srvVars, phase, envVars, dataVars, scratchVars, isSaving, isRestoring,
                   editingSet, addingSetToExercise, pendingChanges, tempSetIdCounter,
                   asyncVars>>

\* selections the user confirms in the picker, in Set iteration order
Selections == {<<3>>, <<1, 3>>}
OneSelection == {<<3>>}

\* the picker's confirm button: ExerciseSelectionModal.handleAddSelectedExercises calls
\* onAddExercises(ids), which runs up to its first await (lines 860-874, 895-903),
\* and then onClose()
ModalConfirm(ids) ==
    /\ phase = "open" /\ showExerciseSelectionModal /\ CanRecord
    /\ defFetch = <<>>
    /\ exerciseSelectionMode = "replace" => Len(ids) = 1
    /\ workout # <<>>
    /\ defFetch' = <<[mode |-> IF exerciseSelectionMode = "replace"
                                  /\ replacingExerciseId # 0
                               THEN "replace" ELSE "add",
                      replacingExerciseId |-> replacingExerciseId,
                      ids |-> ids]>>
    /\ showExerciseSelectionModal' = FALSE
    /\ exerciseSelectionMode' = "add"
    /\ replacingExerciseId' = 0
    /\ userOps' = userOps + 1
    /\ UNCHANGED <<rendered, srvVars, phase, blob, blobTimer, lastClock, mounts,
                   dataVars, scratchVars, isSaving, isRestoring, editingSet,
                   addingSetToExercise, pendingChanges, tempSetIdCounter,
                   mountFetch, presFetch, commit>>

\* new Map([...prev, ...entries])
RECURSIVE MapSetAll(_, _)
MapSetAll(m, entries) ==
    IF entries = <<>> THEN m
    ELSE MapSetAll(MapSet(m, Head(entries)[1], Head(entries)[2]), Tail(entries))

\* newExerciseEntries for Date.now() = t (lines 906-920)
newExerciseEntries(ids, t) ==
    [i \in 1..Len(ids) |->
        <<t + i - 1,
          [exerciseId |-> ids[i], name |-> DefName(ids[i]), tempId |-> t + i - 1]>>]

\* the definition fetches of handleAddSelectedExercises resolve ok (lines 878-927)
DefFetchOk ==
    /\ phase = "open" /\ defFetch # <<>>
    /\ IF defFetch[1].mode = "replace"
       THEN /\ pendingChanges' = [pendingChanges EXCEPT
                  !.exercises = MapSet(@, defFetch[1].replacingExerciseId,
                      [id |-> defFetch[1].replacingExerciseId, type |-> "replace",
                       newExerciseId |-> defFetch[1].ids[1],
                       newExerciseName |-> DefName(defFetch[1].ids[1])])]
            /\ lastClock' = lastClock
       ELSE \E t \in {c \in 1..MaxClock : c >= lastClock} :
            /\ pendingChanges' = [pendingChanges EXCEPT
                  !.newExercises = MapSetAll(@, newExerciseEntries(defFetch[1].ids, t))]
            /\ lastClock' = t
    /\ defFetch' = <<>>
    /\ UNCHANGED <<rendered, srvVars, phase, blob, blobTimer, mounts, userOps,
                   dataVars, scratchVars, isSaving, isRestoring, dialogVars,
                   tempSetIdCounter, mountFetch, presFetch, commit>>
\* a definition fetch fails: alert, nothing recorded (lines 875-877, 929-932)
DefFetchFail ==
    /\ phase = "open" /\ defFetch # <<>>
    /\ defFetch' = <<>>
    /\ UNCHANGED <<rendered, srvVars, phase, blob, blobTimer, lastClock, mounts, userOps,
                   dataVars, scratchVars, isSaving, isRestoring, dialogVars,
                   pendingChanges, tempSetIdCounter, mountFetch, presFetch, commit>>

\* variant: the dialog opens for every displayed exercise
handleAddSet_AnyExercise(exerciseId) ==
    /\ Interactive /\ CanRecord
    /\ exerciseId \in {e.id : e \in DisplayedExercises}
    /\ addingSetToExercise' = exerciseId
    /\ UNCHANGED <<rendered, srvVars, phase, envVars, dataVars, scratchVars, isSaving, isRestoring,
                   editingSet, showExerciseSelectionModal, exerciseSelectionMode,
                   replacingExerciseId, pendingChanges, tempSetIdCounter, asyncVars>>
\* "Add Set" of a displayed exercise's menu (lines 944-956) and the dialog's Cancel
handleAddSet(exerciseId) ==
    /\ Interactive /\ CanRecord
    /\ exerciseId \in {e.id : e \in DisplayedExercises}
    /\ exerciseId >= 0
    /\ addingSetToExercise' = exerciseId
    /\ UNCHANGED <<rendered, srvVars, phase, envVars, dataVars, scratchVars, isSaving, isRestoring,
                   editingSet, showExerciseSelectionModal, exerciseSelectionMode,
                   replacingExerciseId, pendingChanges, tempSetIdCounter, asyncVars>>
CancelAddSet ==
    /\ phase = "open" /\ addingSetToExercise # 0
    /\ addingSetToExercise' = 0
    /\ UNCHANGED <<rendered, srvVars, phase, envVars, dataVars, scratchVars, isSaving, isRestoring,
                   editingSet, showExerciseSelectionModal, exerciseSelectionMode,
                   replacingExerciseId, pendingChanges, tempSetIdCounter, asyncVars>>

SeqMax(s, col) == CHOOSE v \in {s[i][col] : i \in 1..Len(s)} :
                      \A i \in 1..Len(s) : s[i][col] <= v
\* the number of displayed sets plus one
nextSetNumber_Count(existingSets) == Len(existingSets) + 1
nextSetNumber(existingSets) ==
    IF Len(existingSets) > 0 THEN SeqMax(existingSets, "set_number") + 1 ELSE 1

\* "Add" of the add-set dialog (lines 958-1000)
handleSaveNewSet(in) ==
    /\ phase = "open" /\ addingSetToExercise # 0 /\ CanRecord
    /\ workout # <<>>
    /\ \E i \in 1..Len(workout[1].exercises) :
        /\ workout[1].exercises[i].id = addingSetToExercise
        /\ LET exercise == workout[1].exercises[i]
               newSetData ==
                   Spread([workout_exercise_id |-> addingSetToExercise,
                           set_number |-> nextSetNumber(getDisplaySets(exercise)),
                           duration_seconds |-> 0, distance_miles |-> 0,
                           completed_at |-> 1],
                          updatedSetData(in))
           IN  pendingChanges' = [pendingChanges EXCEPT
                  !.newSets = MapSet(@, <<addingSetToExercise, tempSetIdCounter>>,
                                     newSetData)]
    /\ tempSetIdCounter' = tempSetIdCounter + 1
    /\ addingSetToExercise' = 0
    /\ userOps' = userOps + 1
    /\ UNCHANGED <<rendered, srvVars, phase, blob, blobTimer, lastClock, mounts,
                   dataVars, scratchVars, isSaving, isRestoring, editingSet,
                   showExerciseSelectionModal, exerciseSelectionMode,
                   replacingExerciseId, asyncVars>>

\* "Discard Changes" of the save bar, confirmed (lines 1127-1146)
handleDiscardChanges ==
    /\ Interactive /\ shouldShowSaveBar
    /\ pendingChanges' = EmptyPendingChanges
    /\ IF originalWorkout # <<>>
       THEN /\ workout' = originalWorkout
            /\ tempWorkoutName' = TitleOf(originalWorkout[1])
            /\ tempIntensity' = IntensityOf(originalWorkout[1])
            /\ tempWorkoutNotes' = NotesOf(originalWorkout[1])
       ELSE UNCHANGED <<workout, tempWorkoutName, tempIntensity, tempWorkoutNotes>>
    /\ UNCHANGED <<rendered, srvVars, phase, envVars, originalWorkout, loading, durationVars,
                   isSaving, isRestoring, dialogVars, tempSetIdCounter, asyncVars>>

\* ------------------------------------------------- remote store endpoints
\* each handler maps the store to [ok, header, ex, sets, seq]
Unchanged(ok) ==
    [ok |-> ok, header |-> srvHeader, ex |-> srvEx, sets |-> srvSets, seq |-> srvSeq]

\* PATCH /api/workouts/:id (workouts.ts 232-302)
PatchWorkout(body) ==
    IF DOMAIN body \cap {"name", "notes", "intensity_level", "started_at",
                         "completed_at", "duration_minutes"} = {}
    THEN Unchanged(FALSE)
    ELSE [Unchanged(TRUE) EXCEPT !.header = Spread(srvHeader, body)]

\* hasData of the set endpoints
HasData(data) == Field(data, "weight_lbs") > 0 \/ Field(data, "reps") > 0

\* PUT /api/workouts/sets/:setId (workouts.ts 718-768)
PutSet(setId, data) ==
    IF ~\E row \in srvSets : row.id = setId THEN Unchanged(FALSE)
    ELSE [Unchanged(TRUE) EXCEPT !.sets =
            {IF row.id = setId
             THEN [row EXCEPT !.weight_lbs = Field(data, "weight_lbs"),
                              !.reps = Field(data, "reps"),
                              !.duration_seconds = Field(data, "duration_seconds"),
                              !.distance_miles = Field(data, "distance_miles"),
                              !.notes = Field(data, "notes"),
                              !.completed_at = IF HasData(data) THEN 1 ELSE 0]
             ELSE row : row \in srvSets}]

\* DELETE /api/workouts/sets/:setId (workouts.ts 771-799)
DeleteSet(setId) ==
    IF ~\E row \in srvSets : row.id = setId THEN Unchanged(FALSE)
    ELSE [Unchanged(TRUE) EXCEPT !.sets = {row \in srvSets : row.id # setId}]

\* POST /api/workouts/exercises/:exerciseId/sets (workouts.ts 473-527)
PostSet(data) ==
    [Unchanged(TRUE) EXCEPT
        !.sets = srvSets \cup
            {SetRow(srvSeq.set + 1, data.workout_exercise_id, data.set_number,
                    Field(data, "weight_lbs"), Field(data, "reps"),
                    Field(data, "duration_seconds"), Field(data, "distance_miles"),
                    Field(data, "notes"), IF HasData(data) THEN 1 ELSE 0)},
        !.seq = [srvSeq EXCEPT !.set = @ + 1]]

\* POST /api/workouts/:id/exercises (workouts.ts 347-470)
MaxOrderIndex ==
    IF srvEx = {} THEN -1
    ELSE CHOOSE v \in {e.order_index : e \in srvEx} : \A e \in srvEx : e.order_index <= v
nextOrderIndex == (IF MaxOrderIndex # 0 THEN MaxOrderIndex ELSE -1) + 1
PostExercise(body) ==
    IF body.exercise_id \notin Defs THEN Unchanged(FALSE)
    ELSE [Unchanged(TRUE) EXCEPT
            !.ex = srvEx \cup {ExRow(srvSeq.ex + 1, body.exercise_id, nextOrderIndex)},
            !.seq = [srvSeq EXCEPT !.ex = @ + 1]]

\* DELETE /api/workouts/exercises/:exerciseId (workouts.ts 559-583)
DeleteExercise(exerciseId) ==
    IF ~\E e \in srvEx : e.id = exerciseId
    THEN [Unchanged(FALSE) EXCEPT
            !.sets = {row \in srvSets : row.workout_exercise_id # exerciseId}]
    ELSE [Unchanged(TRUE) EXCEPT
            !.sets = {row \in srvSets : row.workout_exercise_id # exerciseId},
            !.ex = {e \in srvEx : e.id # exerciseId}]

\* PUT /api/workouts/exercises/:exerciseId/replace (workouts.ts 862-921)
ReplaceExercise(exerciseId, body) ==
    IF body.new_exercise_id = 0 \/ body.new_exercise_id \notin Defs
       \/ ~\E e \in srvEx : e.id = exerciseId
    THEN Unchanged(FALSE)
    ELSE [Unchanged(TRUE) EXCEPT !.ex =
            {IF e.id = exerciseId
             THEN [e EXCEPT !.exercise_id = body.new_exercise_id] ELSE e : e \in srvEx}]

\* the store's answer to one call of the commit
Handle(call) ==
    CASE call.op = "PATCH workout" -> PatchWorkout(call.body)
      [] call.op = "PUT set" -> PutSet(call.id, call.body)
      [] call.op = "DELETE set" -> DeleteSet(call.id)
      [] call.op = "POST set" -> PostSet(call.body)
      [] call.op = "POST exercise" -> PostExercise(call.body)
      [] call.op = "DELETE exercise" -> DeleteExercise(call.id)
      [] call.op = "PUT replace" -> ReplaceExercise(call.id, call.body)

StoreBecomes(r) ==
    /\ srvHeader' = r.header /\ srvEx' = r.ex /\ srvSets' = r.sets /\ srvSeq' = r.seq
    /\ UNCHANGED rendered

\* ------------------------------------------------------ commit coordinator
Call(stage, op, id, body) ==
    [stage |-> stage, op |-> op, id |-> id, body |-> body, status |-> "pending"]

\* the fetch calls of handleSaveAllChanges in the order its loops issue them,
\* for the pendingChanges of the render the handler was created in (lines 1008-1104)
HeaderCalls(pc) ==
    IF DOMAIN pc.workout # {} THEN <<Call(1, "PATCH workout", 0, pc.workout)>> ELSE <<>>
\* variant: the loop over the set changes sends the edits only
SetCalls_EditsOnly(pc) ==
    LET edits == SeqFilterIdx(pc.sets,
                     {i \in 1..Len(pc.sets) : pc.sets[i][2].type = "edit"}, 1)
    IN  [i \in 1..Len(edits) |->
            Call(2, "PUT set", edits[i][1], JsonObject(edits[i][2].setData))]
SetCalls(pc) ==
    [i \in 1..Len(pc.sets) |->
        IF pc.sets[i][2].type = "edit"
        THEN Call(2, "PUT set", pc.sets[i][1], JsonObject(pc.sets[i][2].setData))
        ELSE Call(2, "DELETE set", pc.sets[i][1], NoFields)]
NewSetCalls(pc) ==
    [i \in 1..Len(pc.newSets) |->
        Call(3, "POST set", pc.newSets[i][2].workout_exercise_id,
             JsonObject(pc.newSets[i][2]))]
NewExerciseCalls(pc) ==
    [i \in 1..Len(pc.newExercises) |->
        Call(4, "POST exercise", 0,
             [exercise_id |-> pc.newExercises[i][2].exerciseId, order_index |-> 0])]
ExerciseCalls(pc) ==
    LET issuing == {i \in 1..Len(pc.exercises) :
                       \/ pc.exercises[i][2].type = "delete"
                       \/ /\ pc.exercises[i][2].type = "replace"
                          /\ pc.exercises[i][2].newExerciseId # 0}
        entries == SeqFilterIdx(pc.exercises, issuing, 1)
    IN  [i \in 1..Len(entries) |->
            IF entries[i][2].type = "delete"
            THEN Call(5, "DELETE exercise", entries[i][1], NoFields)
            ELSE Call(5, "PUT replace", entries[i][1],
                      [new_exercise_id |-> entries[i][2].newExerciseId])]
\* variant: the exercise deletes and replaces are sent right after the header
CommitPlan_ExercisesFirst(pc) ==
    HeaderCalls(pc) \o ExerciseCalls(pc) \o SetCalls(pc) \o NewSetCalls(pc)
        \o NewExerciseCalls(pc)
CommitPlan(pc) ==
    HeaderCalls(pc) \o SetCalls(pc) \o NewSetCalls(pc) \o NewExerciseCalls(pc)
        \o ExerciseCalls(pc)

\* variant: the loop over the calls stops one short
CommitAdvance_EarlyRefetch(c, idx) ==
    IF idx < Len(CommitPlan(c.closure))
    THEN /\ commit' = [c EXCEPT !.pc = "await", !.idx = idx,
                                !.calls = Append(@, CommitPlan(c.closure)[idx])]
         /\ pendingChanges' = pendingChanges
    ELSE /\ commit' = [c EXCEPT !.pc = "refetch", !.idx = idx]
         /\ pendingChanges' = EmptyPendingChanges
\* the handler runs on from position idx: it issues the next call and awaits it,
\* or, past the last call, clears the ledger and awaits the refetch (lines 1106-1115)
CommitAdvance(c, idx) ==
    IF idx <= Len(CommitPlan(c.closure))
    THEN /\ commit' = [c EXCEPT !.pc = "await", !.idx = idx,
                                !.calls = Append(@, CommitPlan(c.closure)[idx])]
         /\ pendingChanges' = pendingChanges
    ELSE /\ commit' = [c EXCEPT !.pc = "refetch", !.idx = idx]
         /\ pendingChanges' = EmptyPendingChanges

\* "Save All Changes" of the save bar (lines 1003-1006 and on to the first await)
handleSaveAllChanges ==
    /\ Interactive /\ shouldShowSaveBar /\ ~isSaving
    /\ commit.pc = "idle" /\ commit.runs < MaxCommits
    /\ hasPendingChanges
    /\ isSaving' = TRUE
    /\ CommitAdvance([IdleCommit EXCEPT !.closure = pendingChanges,
                                     !.runs = commit.runs + 1], 1)
    /\ UNCHANGED <<rendered, srvVars, phase, envVars, dataVars, scratchVars, isRestoring,
                   dialogVars, tempSetIdCounter, mountFetch, presFetch, defFetch>>
\* Save All Changes pressed again after a run that was reported as failed
RetrySaveAllChanges ==
    /\ Interactive /\ shouldShowSaveBar /\ ~isSaving
    /\ commit.pc = "idle" /\ commit.outcome = "failed"
    /\ commit.runs >= MaxCommits /\ commit.runs < MaxCommits + MaxRetries
    /\ hasPendingChanges
    /\ isSaving' = TRUE
    /\ CommitAdvance([IdleCommit EXCEPT !.closure = pendingChanges,
                                     !.runs = commit.runs + 1], 1)
    /\ UNCHANGED <<rendered, srvVars, phase, envVars, dataVars, scratchVars, isRestoring,
                   dialogVars, tempSetIdCounter, mountFetch, presFetch, defFetch>>

\* every further press of "Save Changes" after the counted retries have failed;
\* the count of runs stays at its bound
RetryAgain ==
    /\ Interactive /\ shouldShowSaveBar /\ ~isSaving
    /\ commit.pc = "idle" /\ commit.outcome = "failed"
    /\ commit.runs = MaxCommits + MaxRetries
    /\ hasPendingChanges
    /\ isSaving' = TRUE
    /\ CommitAdvance([IdleCommit EXCEPT !.closure = pendingChanges,
                                     !.runs = commit.runs], 1)
    /\ UNCHANGED <<rendered, srvVars, phase, envVars, dataVars, scratchVars, isRestoring,
                   dialogVars, tempSetIdCounter, mountFetch, presFetch, defFetch>>

Resolved(c, status) == [c EXCEPT !.calls[Len(c.calls)].status = status]
ErrorOf(call) ==
    CASE call.stage = 1 -> "Failed to update workout details"
      [] call.op = "PUT set" -> "Failed to update set"
      [] call.op = "DELETE set" -> "Failed to delete set"
      [] call.stage = 3 -> "Failed to create new set for exercise"
      [] call.stage = 4 -> "Failed to add exercise"
      [] call.op = "DELETE exercise" -> "Failed to delete exercise"
      [] call.op = "PUT replace" -> "Failed to replace exercise"
\* variant: the ledger is cleared in the finally block
CommitFailed_Clears(c) ==
    /\ commit' = [Resolved(c, "rejected") EXCEPT
                     !.pc = "idle", !.outcome = "failed",
                     !.error = ErrorOf(c.calls[Len(c.calls)])]
    /\ isSaving' = FALSE
    /\ pendingChanges' = EmptyPendingChanges
\* throw ... catch: alert; finally setIsSaving(false) (lines 1118-1123)
CommitFailed(c) ==
    /\ commit' = [Resolved(c, "rejected") EXCEPT
                     !.pc = "idle", !.outcome = "failed",
                     !.error = ErrorOf(c.calls[Len(c.calls)])]
    /\ isSaving' = FALSE
    /\ pendingChanges' = pendingChanges

\* the store answers the awaited call
CommitCallAnswered ==
    /\ phase = "open" /\ commit.pc = "await"
    /\ LET r == Handle(commit.calls[Len(commit.calls)])
       IN  /\ StoreBecomes(r)
           /\ IF r.ok
              THEN /\ CommitAdvance(Resolved(commit, "ok"), commit.idx + 1)
                   /\ isSaving' = isSaving
              ELSE CommitFailed(commit)
    /\ UNCHANGED <<phase, envVars, dataVars, scratchVars, isRestoring, dialogVars,
                   tempSetIdCounter, mountFetch, presFetch, defFetch>>
\* the message of the TypeError a fetch throws when the request cannot be made
FetchError == "Failed to fetch"
\* the awaited call does not reach the store: fetch throws, the catch alerts
\* error.message, finally setIsSaving(false) (lines 1118-1123)
\* variant: a thrown call leaves the saving flag set
CommitCallLost_StaysSaving ==
    /\ phase = "open" /\ commit.pc = "await"
    /\ commit' = [Resolved(commit, "rejected") EXCEPT
                     !.pc = "idle", !.outcome = "failed", !.error = FetchError]
    /\ isSaving' = isSaving
    /\ pendingChanges' = pendingChanges
    /\ UNCHANGED <<rendered, srvVars, phase, blob, blobTimer, lastClock, mounts, userOps,
                   dataVars, scratchVars, isRestoring, dialogVars,
                   tempSetIdCounter, mountFetch, presFetch, defFetch>>
CommitCallLost ==
    /\ phase = "open" /\ commit.pc = "await"
    /\ commit' = [Resolved(commit, "rejected") EXCEPT
                     !.pc = "idle", !.outcome = "failed", !.error = FetchError]
    /\ isSaving' = FALSE
    /\ pendingChanges' = pendingChanges
    /\ UNCHANGED <<rendered, srvVars, phase, blob, blobTimer, lastClock, mounts, userOps,
                   dataVars, scratchVars, isRestoring, dialogVars,
                   tempSetIdCounter, mountFetch, presFetch, defFetch>>

\* await fetchWorkoutSummary() of the commit resolves ok; alert; setIsSaving(false)
CommitRefetchOk ==
    /\ phase = "open" /\ commit.pc = "refetch"
    /\ \E data \in GetWorkout : ApplyFetch(data)
    /\ commit' = [commit EXCEPT !.pc = "idle", !.outcome = "saved"]
    /\ isSaving' = FALSE
    /\ UNCHANGED <<rendered, srvVars, phase, envVars, isRestoring, dialogVars,
                   tempSetIdCounter, mountFetch, presFetch, defFetch>>
\* the refetch fails: navigate('/history')
CommitRefetchFail ==
    /\ phase = "open" /\ commit.pc = "refetch"
    /\ Unmounted("closed")
    /\ UNCHANGED <<rendered, srvVars, blob, blobTimer, lastClock, mounts, userOps>>

\* ------------------------------------------------ leaving the screen
\* suspend(workoutId, ledger, scratchValues): the ledger goes to the hand-off slot
\* as JSON and the picker page takes over
Suspend ==
    /\ Interactive /\ ~isSaving
    /\ blob' = <<[pendingChanges |-> JsonPendingChanges(pendingChanges),
                  tempValues |-> [tempWorkoutName |-> tempWorkoutName,
                                  tempIntensity |-> tempIntensity,
                                  tempWorkoutNotes |-> tempWorkoutNotes,
                                  tempStartDateTime |-> tempStartDateTime,
                                  tempEndDateTime |-> tempEndDateTime],
                  tempSetIdCounter |-> tempSetIdCounter]>>
    /\ Unmounted("suspended")
    /\ UNCHANGED <<rendered, srvVars, blobTimer, lastClock, mounts, userOps>>

\* the back arrow: navigate('/history') (line 1254)
\* the slot of the workout holds a text this page did not write: one that is no
\* JSON, one without pendingChanges, one whose ledger lacks a collection
ForeignBlobs ==
    {Unparsable,
     [tempSetIdCounter |-> 2],
     [pendingChanges |-> [workout |-> [name |-> "Pull"], exercises |-> EmptyMap,
                          newSets |-> EmptyMap, newExercises |-> EmptyMap],
      tempSetIdCounter |-> 2],
     [pendingChanges |-> [sets |-> <<<<1, [id |-> 1, type |-> "delete"]>>>>,
                          exercises |-> EmptyMap, newSets |-> EmptyMap]]}
ForeignWrite(b) ==
    /\ phase = "suspended" /\ blob # <<b>>
    /\ blob' = <<b>>
    /\ UNCHANGED <<rendered, srvVars, phase, blobTimer, lastClock, mounts, userOps,
                   dataVars, scratchVars, isSaving, isRestoring, dialogVars,
                   pendingChanges, tempSetIdCounter, asyncVars>>

\* the page is left for the picker at /workout/select-exercises?returnTo=...
\* opened by its address: the page unmounts and nothing is stored
OpenPicker ==
    /\ Interactive /\ ~isSaving
    /\ Unmounted("suspended")
    /\ UNCHANGED <<rendered, srvVars, blob, blobTimer, lastClock, mounts, userOps>>

Leave ==
    /\ Interactive /\ ~isSaving
    /\ Unmounted("closed")
    /\ UNCHANGED <<rendered, srvVars, blob, blobTimer, lastClock, mounts, userOps>>

\* while the screen is away, another page removes a set or an exercise instance
\* through the store's own endpoints
ExternalDeleteSet(setId) ==
    /\ phase = "suspended"
    /\ DeleteSet(setId).ok
    /\ StoreBecomes(DeleteSet(setId))
    /\ UNCHANGED <<phase, blob, blobTimer, lastClock, mounts, userOps,
                   dataVars, scratchVars, isSaving, isRestoring, dialogVars,
                   pendingChanges, tempSetIdCounter, asyncVars>>
ExternalDeleteExercise(exerciseId) ==
    /\ phase = "suspended"
    /\ DeleteExercise(exerciseId).ok
    /\ StoreBecomes(DeleteExercise(exerciseId))
    /\ UNCHANGED <<phase, blob, blobTimer, lastClock, mounts, userOps,
                   dataVars, scratchVars, isSaving, isRestoring, dialogVars,
                   pendingChanges, tempSetIdCounter, asyncVars>>

\* ---------------------------------------------------------- specification
SetIds == {s.id : s \in InitSets}
ExerciseIds == {e.id : e \in InitEx}

Next ==
    \/ Mount(FALSE) \/ Mount(TRUE) \/ BlobExpire
    \/ MountAgain(FALSE) \/ MountAgain(TRUE)
    \/ MountFetchOk \/ MountFetchFail \/ PresFetchOk \/ PresFetchFail
    \/ \E v \in TitleInputs : TypeTitle(v)
    \/ handleSaveTitle
    \/ \E v \in IntensityInputs : SelectIntensity(v)
    \/ handleSaveIntensity
    \/ \E v \in NotesInputs : TypeNotes(v)
    \/ handleSaveNotes
    \/ handleEditDuration \/ CancelDuration
    \/ \E start \in TimeInputs, end \in TimeInputs : TypeDuration(start, end)
    \/ handleSaveDuration
    \/ \E s \in DisplayedSets : handleEditSet(s)
    \/ CancelEditSet
    \/ \E in \in SetInputs : handleUpdateSet(in)
    \/ \E id \in {s.id : s \in DisplayedSets} : handleDeleteSet(id)
    \/ \E id \in {e.id : e \in DisplayedExercises} : handleDeleteExercise(id)
    \/ \E id \in {e.id : e \in DisplayedExercises} : LateDeleteExercise(id)
    \/ \E id \in {e.id : e \in DisplayedExercises} : handleReplaceExercise(id)
    \/ handleAddExercise \/ ModalClose
    \/ \E ids \in Selections : ModalConfirm(ids)
    \/ DefFetchOk \/ DefFetchFail
    \/ \E id \in {e.id : e \in DisplayedExercises} : handleAddSet(id)
    \/ CancelAddSet
    \/ \E in \in SetInputs : handleSaveNewSet(in)
    \/ handleDiscardChanges
    \/ handleSaveAllChanges \/ RetrySaveAllChanges \/ RetryAgain
    \/ CommitCallAnswered \/ CommitCallLost \/ CommitRefetchOk \/ CommitRefetchFail
    \/ Render
    \/ Suspend \/ OpenPicker \/ Leave
    \/ \E b \in ForeignBlobs : ForeignWrite(b)
    \/ \E id \in SetIds : ExternalDeleteSet(id)
    \/ \E id \in ExerciseIds : ExternalDeleteExercise(id)

\* the whole system; the properties below are established under the narrower
\* specifications that follow, each of which TLC explores exhaustively
Spec == Init /\ [][Next]_vars

\* the editing session and its commits: the loaded screen, no hand-off
NextCommit ==
    \/ handleSaveTitle
    \/ \E s \in DisplayedSets : handleEditSet(s)
    \/ CancelEditSet
    \/ \E in \in SetInputs : handleUpdateSet(in)
    \/ \E id \in {s.id : s \in DisplayedSets} : handleDeleteSet(id)
    \/ \E id \in {e.id : e \in DisplayedExercises} : handleDeleteExercise(id)
    \/ \E id \in {e.id : e \in DisplayedExercises} : handleReplaceExercise(id)
    \/ handleAddExercise
    \/ ModalClose
    \/ \E ids \in OneSelection : ModalConfirm(ids)
    \/ DefFetchOk \/ DefFetchFail
    \/ \E id \in {e.id : e \in DisplayedExercises} : handleAddSet(id)
    \/ CancelAddSet
    \/ \E in \in NewSetInputs : handleSaveNewSet(in)
    \/ handleDiscardChanges
    \/ handleSaveAllChanges
    \/ CommitCallAnswered \/ CommitCallLost \/ CommitRefetchOk \/ CommitRefetchFail
SpecCommit == Init /\ [][NextCommit]_vars

\* the hand-off: edit, suspend, changes by another page, resume, edit on
NextResume ==
    \/ Mount(TRUE) \/ BlobExpire
    \/ MountFetchOk \/ MountFetchFail \/ PresFetchOk \/ PresFetchFail
    \/ handleSaveTitle
    \/ \E s \in DisplayedSets : handleEditSet(s)
    \/ \E in \in SetInputs : handleUpdateSet(in)
    \/ \E id \in {s.id : s \in DisplayedSets} : handleDeleteSet(id)
    \/ \E id \in {e.id : e \in DisplayedExercises} : handleDeleteExercise(id)
    \/ \E id \in {e.id : e \in DisplayedExercises} : handleReplaceExercise(id)
    \/ handleAddExercise
    \/ \E ids \in OneSelection : ModalConfirm(ids)
    \/ DefFetchOk
    \/ \E id \in {e.id : e \in DisplayedExercises} : handleAddSet(id)
    \/ \E in \in NewSetInputs : handleSaveNewSet(in)
    \/ Suspend
    \/ \E id \in SetIds : ExternalDeleteSet(id)
    \/ \E id \in ExerciseIds : ExternalDeleteExercise(id)
SpecResume == Init /\ [][NextResume]_vars

\* the header dialogs, the set dialog and the discard button on the loaded screen
NextHeader ==
    \/ \E v \in TitleInputs : TypeTitle(v)
    \/ handleSaveTitle
    \/ \E v \in IntensityInputs : SelectIntensity(v)
    \/ handleSaveIntensity
    \/ \E v \in NotesInputs : TypeNotes(v)
    \/ handleSaveNotes
    \/ handleEditDuration \/ CancelDuration
    \/ \E start \in TimeInputs, end \in TimeInputs : TypeDuration(start, end)
    \/ handleSaveDuration
    \/ \E s \in DisplayedSets : handleEditSet(s)
    \/ CancelEditSet
    \/ \E in \in SetInputs : handleUpdateSet(in)
    \/ \E id \in {s.id : s \in DisplayedSets} : handleDeleteSet(id)
    \/ handleDiscardChanges
SpecHeader == Init /\ [][NextHeader]_vars

\* the hand-off followed by a commit: edit, suspend, resume, save
NextBridge ==
    \/ Mount(TRUE) \/ BlobExpire
    \/ MountFetchOk \/ MountFetchFail \/ PresFetchOk \/ PresFetchFail
    \/ handleSaveTitle
    \/ \E s \in DisplayedSets : handleEditSet(s)
    \/ \E in \in NewSetInputs : handleUpdateSet(in)
    \/ Suspend
    \/ handleSaveAllChanges
    \/ CommitCallAnswered \/ CommitCallLost \/ CommitRefetchOk \/ CommitRefetchFail
SpecBridge == Init /\ [][NextBridge]_vars

\* the set dialogs of the loaded screen
NextSets ==
    \/ \E s \in DisplayedSets : handleEditSet(s)
    \/ CancelEditSet
    \/ \E in \in SetInputs : handleUpdateSet(in)
    \/ \E id \in {s.id : s \in DisplayedSets} : handleDeleteSet(id)
    \/ \E id \in {e.id : e \in DisplayedExercises} : handleAddSet(id)
    \/ CancelAddSet
    \/ \E in \in SetInputs : handleSaveNewSet(in)
    \/ handleDiscardChanges
SpecSets == Init /\ [][NextSets]_vars

\* the set dialogs of the loaded screen and its render passes
NextRender == NextSets \/ Render
SpecRender == Init /\ [][NextRender]_vars

\* recording on the loaded screen: the set dialogs, and delete and replace of
\* an instance
NextLedger ==
    \/ NextSets
    \/ \E id \in {e.id : e \in DisplayedExercises} : handleDeleteExercise(id)
    \/ \E id \in {e.id : e \in DisplayedExercises} : handleReplaceExercise(id)
    \/ ModalClose
    \/ \E ids \in OneSelection : ModalConfirm(ids)
    \/ DefFetchOk \/ DefFetchFail
SpecLedger == Init /\ [][NextLedger]_vars

\* the four header editors alone: title, intensity, notes, duration
NextPatch ==
    \/ \E v \in TitleInputs : TypeTitle(v)
    \/ handleSaveTitle
    \/ \E v \in IntensityInputs : SelectIntensity(v)
    \/ handleSaveIntensity
    \/ \E v \in NotesInputs : TypeNotes(v)
    \/ handleSaveNotes
    \/ handleEditDuration \/ CancelDuration
    \/ \E start \in TimeInputs, end \in TimeInputs : TypeDuration(start, end)
    \/ handleSaveDuration
SpecPatch == Init /\ [][NextPatch]_vars

\* a return from the picker with and without a stored blob
NextFallback ==
    \/ Mount(TRUE) \/ BlobExpire
    \/ MountFetchOk \/ MountFetchFail \/ PresFetchOk \/ PresFetchFail
    \/ handleSaveTitle
    \/ \E s \in DisplayedSets : handleEditSet(s)
    \/ \E in \in SetInputs : handleUpdateSet(in)
    \/ \E id \in {s.id : s \in DisplayedSets} : handleDeleteSet(id)
    \/ \E id \in {e.id : e \in DisplayedExercises} : handleAddSet(id)
    \/ \E in \in NewSetInputs : handleSaveNewSet(in)
    \/ Suspend \/ OpenPicker
SpecFallback == Init /\ [][NextFallback]_vars

\* a return from the picker that finds any stored text and whose fetches succeed
NextTotal ==
    \/ Mount(TRUE)
    \/ MountFetchOk \/ PresFetchOk
    \/ handleSaveTitle
    \/ \E s \in DisplayedSets : handleEditSet(s)
    \/ \E in \in SetInputs : handleUpdateSet(in)
    \/ \E id \in {s.id : s \in DisplayedSets} : handleDeleteSet(id)
    \/ Suspend
    \/ \E b \in ForeignBlobs : ForeignWrite(b)
SpecTotal == Init /\ [][NextTotal]_vars

\* a commit that fails part-way and is retried
NextRetry ==
    \/ \E id \in {e.id : e \in DisplayedExercises} : handleAddSet(id)
    \/ \E in \in NewSetInputs : handleSaveNewSet(in)
    \/ handleAddExercise
    \/ \E ids \in OneSelection : ModalConfirm(ids)
    \/ DefFetchOk
    \/ \E id \in {s.id : s \in DisplayedSets} : handleDeleteSet(id)
    \/ \E id \in {e.id : e \in DisplayedExercises} : handleDeleteExercise(id)
    \/ handleSaveAllChanges \/ RetrySaveAllChanges
    \/ CommitCallAnswered \/ CommitCallLost \/ CommitRefetchOk \/ CommitRefetchFail
SpecRetry == Init /\ [][NextRetry]_vars

\* the hand-off, a commit or a discard of the restored ledger, and a second
\* visit of the picker that stores nothing: the page is suspended before its
\* first return only, and left again only once its ledger is drained; the
\* snapshot of the mount effect arrives before the one of the resume, so that
\* only a commit or a discard empties the restored ledger
Drainable == mounts > 0 /\ ~isRestoring /\ presFetch = <<>> /\ ~hasPendingChanges
NextReturn ==
    \/ Mount(TRUE) \/ MountAgain(TRUE) \/ BlobExpire
    \/ isRestoring /\ MountFetchOk
    \/ PresFetchOk
    \/ handleSaveTitle
    \/ \E id \in {e.id : e \in DisplayedExercises} : handleAddSet(id)
    \/ \E in \in NewSetInputs : handleSaveNewSet(in)
    \/ mounts = 0 /\ Suspend
    \/ Drainable /\ OpenPicker
    \/ handleDiscardChanges
    \/ handleSaveAllChanges
    \/ CommitCallAnswered \/ CommitRefetchOk
SpecReturn == Init /\ [][NextReturn]_vars

\* the exercise picker of the loaded screen: additions, replacements and the
\* deletion of shown instances
NextPicker ==
    \/ handleAddExercise \/ ModalClose
    \/ \E id \in {e.id : e \in DisplayedExercises} : handleReplaceExercise(id)
    \/ \E ids \in Selections : ModalConfirm(ids)
    \/ DefFetchOk \/ DefFetchFail
    \/ \E id \in {e.id : e \in DisplayedExercises} : handleDeleteExercise(id)
    \/ \E id \in {e.id : e \in DisplayedExercises} : LateDeleteExercise(id)
SpecPicker == Init /\ [][NextPicker]_vars

\* exercises added to a workout whose instances another page has removed
\* while the screen was away
NextOrder ==
    \/ OpenPicker \/ Mount(TRUE)
    \/ \E id \in ExerciseIds : ExternalDeleteExercise(id)
    \/ MountFetchOk \/ PresFetchOk
    \/ handleAddExercise
    \/ \E ids \in Selections : ModalConfirm(ids)
    \/ DefFetchOk
    \/ handleSaveAllChanges
    \/ CommitCallAnswered \/ CommitRefetchOk
SpecOrder == Init /\ [][NextOrder]_vars

\* commits and resumes whose requests all settle: every awaited fetch is
\* eventually answered or throws; the ledger is recorded before the hand-off
\* and is committed either before it or after the resume
FirstVisit == mounts = 0
NextFinish ==
    \/ Mount(TRUE)
    \/ MountFetchOk \/ MountFetchFail \/ PresFetchOk \/ PresFetchFail
    \/ FirstVisit /\ handleSaveTitle
    \/ FirstVisit /\ \E id \in {e.id : e \in DisplayedExercises} : handleAddSet(id)
    \/ FirstVisit /\ \E in \in NewSetInputs : handleSaveNewSet(in)
    \/ FirstVisit /\ \E id \in {s.id : s \in DisplayedSets} : handleDeleteSet(id)
    \/ FirstVisit /\ commit.runs = 0 /\ Suspend
    \/ handleSaveAllChanges
    \/ CommitCallAnswered \/ CommitCallLost \/ CommitRefetchOk \/ CommitRefetchFail
SpecFinish ==
    /\ Init /\ [][NextFinish]_vars
    /\ WF_vars(CommitCallAnswered \/ CommitCallLost)
    /\ WF_vars(CommitRefetchOk \/ CommitRefetchFail)
    /\ WF_vars(PresFetchOk \/ PresFetchFail)

\* a ledger of changes to existing entities, committed and retried until it is
\* saved: the user presses Save again after every failure, every call is
\* answered, and only the runs before the retries can lose a call
BeforeCommit == commit.runs = 0
NextRetryFair ==
    \/ BeforeCommit /\ handleSaveTitle
    \/ BeforeCommit /\ \E s \in DisplayedSets : handleEditSet(s)
    \/ BeforeCommit /\ \E in \in NewSetInputs : handleUpdateSet(in)
    \/ BeforeCommit /\ \E id \in {s.id : s \in DisplayedSets} : handleDeleteSet(id)
    \/ BeforeCommit /\ \E id \in {e.id : e \in DisplayedExercises} : handleDeleteExercise(id)
    \/ handleSaveAllChanges \/ RetrySaveAllChanges \/ RetryAgain
    \/ CommitCallAnswered \/ CommitRefetchOk
    \/ commit.runs <= MaxCommits /\ CommitCallLost
SpecRetryFair ==
    /\ Init /\ [][NextRetryFair]_vars
    /\ WF_vars(RetrySaveAllChanges \/ RetryAgain)
    /\ WF_vars(CommitCallAnswered) /\ WF_vars(CommitRefetchOk)

\* the hand-off with the ledger recorded before the first suspend only
FirstSession == mounts = 0
NextReconcile ==
    \/ Mount(TRUE) \/ BlobExpire
    \/ MountFetchOk \/ MountFetchFail \/ PresFetchOk \/ PresFetchFail
    \/ FirstSession /\ handleSaveTitle
    \/ FirstSession /\ \E s \in DisplayedSets : handleEditSet(s)
    \/ FirstSession /\ \E in \in NewSetInputs : handleUpdateSet(in)
    \/ FirstSession /\ \E id \in {s.id : s \in DisplayedSets} : handleDeleteSet(id)
    \/ FirstSession /\ \E id \in {e.id : e \in DisplayedExercises} : handleDeleteExercise(id)
    \/ FirstSession /\ \E id \in {e.id : e \in DisplayedExercises} : handleReplaceExercise(id)
    \/ FirstSession /\ handleAddExercise
    \/ FirstSession /\ \E ids \in OneSelection : ModalConfirm(ids)
    \/ DefFetchOk
    \/ FirstSession /\ \E id \in {e.id : e \in DisplayedExercises} : handleAddSet(id)
    \/ FirstSession /\ \E in \in NewSetInputs : handleSaveNewSet(in)
    \/ Suspend
    \/ \E id \in SetIds : ExternalDeleteSet(id)
    \/ \E id \in ExerciseIds : ExternalDeleteExercise(id)
SpecReconcile == Init /\ [][NextReconcile]_vars

\* ================================================================ properties
\* ids of the entities a snapshot holds
FreshSetIds(data) ==
    UNION {{data.exercises[i].sets[j].id : j \in 1..Len(data.exercises[i].sets)} :
              i \in 1..Len(data.exercises)}
FreshExerciseIds(data) == {data.exercises[i].id : i \in 1..Len(data.exercises)}
Entries(m) == {m[i] : i \in 1..Len(m)}
\* the step in which the preservation fetch of a resume is answered
ResumeStep == presFetch # <<>> /\ presFetch' = <<>> /\ phase' = "open"
\* the stored ledger names an entity the snapshot no longer holds
StaleIn(stored, data) ==
    \/ \E e \in Entries(stored.sets) : e[1] \notin FreshSetIds(data)
    \/ \E e \in Entries(stored.exercises) : e[1] \notin FreshExerciseIds(data)
    \/ \E e \in Entries(stored.newSets) :
          e[2].workout_exercise_id \notin FreshExerciseIds(data)
\* the screen has resumed from the stored ledger and nothing has resolved since
Resumed ==
    /\ phase = "open" /\ mounts > 0 /\ blob # <<>>
    /\ presFetch = <<>> /\ originalWorkout # <<>> /\ hasPendingChanges

\* pc is the stored ledger restricted to the entries valid in the snapshot
IsReconciled(pc, saved, data) ==
    /\ Entries(pc.sets) = {e \in Entries(saved.sets) : e[1] \in FreshSetIds(data)}
    /\ Len(pc.sets) = Cardinality(Entries(pc.sets))
    /\ Entries(pc.exercises) =
          {e \in Entries(saved.exercises) : e[1] \in FreshExerciseIds(data)}
    /\ Len(pc.exercises) = Cardinality(Entries(pc.exercises))
    /\ Entries(pc.newSets) =
          {e \in Entries(saved.newSets) :
               e[2].workout_exercise_id \in FreshExerciseIds(data)}
    /\ Len(pc.newSets) = Cardinality(Entries(pc.newSets))
    /\ pc.newExercises = saved.newExercises
    /\ pc.workout = saved.workout

\* C1 (no resurrection): the ledger installed by a resume holds no set edit or set
\* delete of a set the fresh snapshot lacks, no exercise delete or replace of an
\* instance it lacks, no new set whose owner it lacks, and the projection of the
\* resumed screen shows no stored entity that the fresh snapshot omits.
C1_NoResurrection ==
    [][ResumeStep =>
        LET data == originalWorkout'[1]
            pc == pendingChanges'
            shown == getDisplayExercisesOf(pc, workout')
        IN  /\ ~StaleIn(pc, data)
            /\ \A i \in 1..Len(shown) :
                  /\ shown[i].id > 0 => shown[i].id \in FreshExerciseIds(data)
                  /\ LET sets == getDisplaySetsOf(pc, shown[i])
                     IN  \A j \in 1..Len(sets) :
                            /\ sets[j].id > 0 => sets[j].id \in FreshSetIds(data)
                            /\ sets[j].workout_exercise_id \in FreshExerciseIds(data)
       ]_vars
\* a resume whose stored ledger named an entity deleted meanwhile
C1_Witness == Resumed /\ StaleIn(blob[1].pendingChanges, originalWorkout[1])

\* C2 (reconciliation keeps exactly the valid entries): the ledger installed by a
\* resume holds, unchanged and once each, exactly the stored set changes whose set
\* the fresh snapshot holds, the stored exercise changes whose instance it holds and
\* the stored new sets whose owner it holds, and every stored new exercise and the
\* stored header patch as they were.
C2_KeepsExactlyValid ==
    [][ResumeStep => IsReconciled(pendingChanges', presFetch[1].pc, originalWorkout'[1])]_vars
\* a resume that dropped one stored entry and kept another
C2_Witness ==
    /\ Resumed
    /\ pendingChanges # blob[1].pendingChanges
    /\ Len(blob[1].pendingChanges.newExercises) > 0

\* C3 (resume survives interleaving): after a mount with the refresh flag and a
\* stored blob, when the last of the two outstanding fetches resolves the ledger
\* equals the reconciled stored ledger, whichever of the two that is.
PresFetchLast == ResumeStep /\ ~mountFetch
MountFetchLast ==
    /\ mountFetch /\ ~mountFetch' /\ phase' = "open"
    /\ presFetch = <<>> /\ originalWorkout # <<>> /\ blob # <<>>
    /\ IsReconciled(pendingChanges, blob[1].pendingChanges, originalWorkout[1])
C3_ResumeSurvivesInterleaving ==
    [][/\ PresFetchLast =>
            IsReconciled(pendingChanges', presFetch[1].pc, originalWorkout'[1])
       /\ MountFetchLast =>
            IsReconciled(pendingChanges', blob[1].pendingChanges, originalWorkout'[1])
      ]_vars

\* ---- commit
StageOf(op) ==
    CASE op = "PATCH workout" -> 1
      [] op \in {"PUT set", "DELETE set"} -> 2
      [] op = "POST set" -> 3
      [] op = "POST exercise" -> 4
      [] op \in {"DELETE exercise", "PUT replace"} -> 5
\* number of entries of the ledger that belong to the stages before stage k
EntriesBefore(pc, k) ==
    (IF k > 1 /\ DOMAIN pc.workout # {} THEN 1 ELSE 0)
    + (IF k > 2 THEN Len(pc.sets) ELSE 0)
    + (IF k > 3 THEN Len(pc.newSets) ELSE 0)
    + (IF k > 4 THEN Len(pc.newExercises) ELSE 0)
\* number of remote operations the ledger stands for
OperationsOf(pc) ==
    EntriesBefore(pc, 5)
    + Cardinality({i \in 1..Len(pc.exercises) :
                      pc.exercises[i][2].type = "replace" =>
                          pc.exercises[i][2].newExerciseId # 0})

\* C4 (commit stage order): the calls a commit has issued so far are in the order
\* header patch, set edits and deletes, set creates, exercise creates, exercise
\* deletes and replaces; every call but the latest has resolved; and a call of a
\* stage is issued only when every entry of the earlier stages has had its call.
C4_StageOrder ==
    \A i \in 1..Len(commit.calls) :
        /\ i < Len(commit.calls) =>
              /\ commit.calls[i].status = "ok"
              /\ StageOf(commit.calls[i].op) <= StageOf(commit.calls[i + 1].op)
        /\ Cardinality({j \in 1..(i - 1) :
                           StageOf(commit.calls[j].op) < StageOf(commit.calls[i].op)})
              = EntriesBefore(commit.closure, StageOf(commit.calls[i].op))
\* a commit that went through calls of two different stages and succeeded
C4_Witness ==
    /\ commit.outcome = "saved" /\ Len(commit.calls) >= 2
    /\ StageOf(commit.calls[1].op) < StageOf(commit.calls[Len(commit.calls)].op)

\* C5 (commit failure is all-or-nothing for the ledger): a rejected call ends the
\* commit: it is reported as failed with the operation that failed, the saving flag
\* is lowered, no further call of that commit is issued, and no step of the commit
\* up to and including the failure changes the ledger.
CommitStep == commit.pc = "await" /\ commit' # commit /\ phase' = "open"
C5_FailureKeepsLedger ==
    [][/\ (CommitStep /\ commit'.pc # "refetch") => pendingChanges' = pendingChanges
       /\ (CommitStep /\ commit'.calls[Len(commit.calls)].status = "rejected") =>
             /\ commit'.outcome = "failed" /\ commit'.error # ""
             /\ commit'.pc = "idle" /\ ~isSaving'
             /\ Len(commit'.calls) = Len(commit.calls)
       /\ (commit.outcome = "failed" /\ commit'.runs = commit.runs /\ phase' = "open")
             => commit' = commit
      ]_vars
\* a commit that failed after a call of an earlier stage had succeeded, with
\* the entry of that earlier stage still in the ledger
C5_Witness ==
    /\ commit.outcome = "failed" /\ Len(commit.calls) >= 2
    /\ commit.calls[1].status = "ok"
    /\ pendingChanges = commit.closure

\* C6 (commit drains fully on success): the refetch of a commit starts only when
\* every operation of the ledger has been issued and has succeeded, the ledger is
\* emptied at that point, and when the refetch is answered the ledger is empty and
\* the answer is the snapshot.
C6_DrainsOnSuccess ==
    [][/\ (CommitStep /\ commit'.pc = "refetch") =>
             /\ Len(commit'.calls) = OperationsOf(commit.closure)
             /\ \A i \in 1..Len(commit'.calls) : commit'.calls[i].status = "ok"
             /\ ~hasPendingChangesOf(pendingChanges')
       /\ (commit.pc = "refetch" /\ commit'.outcome = "saved") =>
             /\ ~hasPendingChangesOf(pendingChanges')
             /\ originalWorkout' \in {<<d>> : d \in GetWorkout}
             /\ workout' = originalWorkout'
             /\ ~isSaving'
      ]_vars
\* a commit of two operations has succeeded and its refetch shows the new store
C6_Witness ==
    /\ commit.outcome = "saved" /\ Len(commit.calls) >= 2
    /\ ~hasPendingChanges /\ ~isSaving
    /\ originalWorkout # <<>> /\ workout = originalWorkout
    /\ FreshSetIds(originalWorkout[1]) # {s.id : s \in InitSets}

\* the set with the given id in a snapshot
SetIn(data, id) ==
    CHOOSE set \in UNION {{data.exercises[i].sets[j] :
                              j \in 1..Len(data.exercises[i].sets)} :
                              i \in 1..Len(data.exercises)} : set.id = id

\* C7 (commit matches what was displayed): when a commit with an edit of a
\* persisted set has succeeded, the set of the refetched snapshot carries the
\* patch values in the patched fields and keeps, in duration, distance and in
\* whether the completion timestamp is null, the values of the snapshot before.
C7_CommitMatchesDisplayed ==
    [][(commit.pc = "refetch" /\ commit'.outcome = "saved") =>
        \A e \in Entries(commit.closure.sets) :
            (/\ e[2].type = "edit" /\ e[1] > 0
             /\ e[1] \in FreshSetIds(originalWorkout[1])
             /\ e[1] \in FreshSetIds(originalWorkout'[1])) =>
                LET before == SetIn(originalWorkout[1], e[1])
                    after == SetIn(originalWorkout'[1], e[1])
                    patch == e[2].setData
                IN  /\ after.weight_lbs = Field(patch, "weight_lbs")
                    /\ after.reps = Field(patch, "reps")
                    /\ after.notes = Field(patch, "notes")
                    /\ after.duration_seconds = before.duration_seconds
                    /\ after.distance_miles = before.distance_miles
                    /\ (after.completed_at = 0) = (before.completed_at = 0)
      ]_vars

\* C8 (temporary ids are never sent): no call of a commit is addressed to a
\* negative set id or a negative exercise-instance id.
C8_NoTemporaryIdSent ==
    \A i \in 1..Len(commit.calls) :
        /\ commit.calls[i].id >= 0
        /\ commit.calls[i].op = "POST set" =>
              commit.calls[i].body.workout_exercise_id > 0

\* C9 (edit after delete is a no-op): closing the edit dialog of a set whose id
\* has a pending delete, by Save or by Cancel, leaves the ledger as it was.
C9_EditAfterDeleteRejected ==
    [][(/\ editingSet # <<>> /\ editingSet' = <<>> /\ phase' = "open"
        /\ \E e \in Entries(pendingChanges.sets) :
              e[1] = editingSet[1].id /\ e[2].type = "delete")
       => pendingChanges' = pendingChanges]_vars

\* C10 (a pending exercise delete is never overwritten by a replace): an instance
\* with a pending delete has no pending replace after any step of the screen.
C10_DeleteNotOverwritten ==
    [][\A e \in Entries(pendingChanges.exercises) :
          (e[2].type = "delete" /\ phase' = "open") =>
              ~\E f \in Entries(pendingChanges'.exercises) :
                  f[1] = e[1] /\ f[2].type = "replace"]_vars

\* C11 (a pending-new exercise cannot receive a new set): no new set of the ledger
\* is owned by an instance with a negative id, and the add-set dialog is never
\* open for such an instance.
C11_NoSetOnPendingExercise ==
    /\ \A e \in Entries(pendingChanges.newSets) :
          e[2].workout_exercise_id > 0 /\ e[1][1] > 0
    /\ addingSetToExercise >= 0
\* a pending-new exercise is on display next to a pending new set
C11_Witness ==
    /\ phase = "open" /\ Len(pendingChanges.newExercises) > 0
    /\ Len(pendingChanges.newSets) > 0
    /\ \E e \in DisplayedExercises : e.id < 0

\* the calls of the given operations among the issued ones, as <<position, call>>
CallsOf(ops) == {<<i, commit.calls[i]>> : i \in {j \in 1..Len(commit.calls) :
                                                    commit.calls[j].op \in ops}}
\* C12 (one remote operation per ledger entry): when every call of a commit has
\* succeeded, each set edit has exactly one PUT to its set and each set delete one
\* DELETE, each new set one POST carrying it, each new exercise one POST for its
\* definition, each exercise delete one DELETE and each replace one PUT to its
\* instance, a non-empty header patch one PATCH, and there is no other call; a
\* commit of an empty ledger has no call.
C12_OneOperationPerEntry ==
    (commit.pc = "refetch" \/ commit.outcome = "saved") =>
        LET pc == commit.closure
            one(ops, id) == Cardinality({c \in CallsOf(ops) : c[2].id = id}) = 1
        IN  /\ \A e \in Entries(pc.sets) :
                  /\ e[2].type = "edit" => one({"PUT set"}, e[1])
                  /\ e[2].type = "delete" => one({"DELETE set"}, e[1])
            /\ Cardinality(CallsOf({"PUT set", "DELETE set"})) = Len(pc.sets)
            /\ \A e \in Entries(pc.exercises) :
                  /\ e[2].type = "delete" => one({"DELETE exercise"}, e[1])
                  /\ e[2].type = "replace" => one({"PUT replace"}, e[1])
            /\ Cardinality(CallsOf({"DELETE exercise", "PUT replace"}))
                  = Len(pc.exercises)
            /\ Cardinality(CallsOf({"POST set"})) = Len(pc.newSets)
            /\ \A i \in 1..Len(pc.newSets) :
                  \E c \in CallsOf({"POST set"}) :
                      /\ c[2].body.set_number = pc.newSets[i][2].set_number
                      /\ c[2].body.workout_exercise_id
                            = pc.newSets[i][2].workout_exercise_id
            /\ Cardinality(CallsOf({"POST exercise"})) = Len(pc.newExercises)
            /\ \A i \in 1..Len(pc.newExercises) :
                  \E c \in CallsOf({"POST exercise"}) :
                      c[2].body.exercise_id = pc.newExercises[i][2].exerciseId
            /\ Cardinality(CallsOf({"PATCH workout"}))
                  = (IF DOMAIN pc.workout # {} THEN 1 ELSE 0)
            /\ (~hasPendingChangesOf(pc)) => commit.calls = <<>>
\* a commit of a set delete and of another change has succeeded
C12_Witness ==
    /\ commit.outcome = "saved"
    /\ \E e \in Entries(commit.closure.sets) : e[2].type = "delete"
    /\ Len(commit.closure.sets) + Len(commit.closure.exercises)
          + Len(commit.closure.newExercises) >= 2

\* C13 (discard restores everything): a discard empties the ledger, sets every
\* scratch value (title, intensity, notes, start and end time) to the value of the
\* last-known snapshot, displays the projection of the snapshot alone, and
\* leaves the store and the list of issued calls as they were.
SnapshotStart == {originalWorkout[1].started_at,
                  formatForInput(originalWorkout[1].started_at)}
SnapshotEnd == {originalWorkout[1].completed_at,
                formatForInput(originalWorkout[1].completed_at)}
C13_DiscardRestoresAll ==
    [][handleDiscardChanges =>
          /\ pendingChanges' = EmptyPendingChanges
          /\ tempWorkoutName' = originalWorkout[1].name
          /\ tempIntensity' = originalWorkout[1].intensity_level
          /\ tempWorkoutNotes' = originalWorkout[1].notes
          /\ tempStartDateTime' \in SnapshotStart
          /\ tempEndDateTime' \in SnapshotEnd
          /\ workout' = originalWorkout /\ originalWorkout' = originalWorkout
          /\ getDisplayExercises' =
                getDisplayExercisesOf(EmptyPendingChanges, originalWorkout)
          /\ UNCHANGED <<srvVars, asyncVars>>]_vars

\* C14 (a successful commit discards the stored blob): once every call of a commit
\* has succeeded, the hand-off slot of the workout is empty.
C14_CommitDiscardsBlob ==
    (commit.pc = "refetch" \/ commit.outcome = "saved") => blob = <<>>

\* C15 (blob retention and garbage collection): the step in which resume
\* installs the ledger it read leaves the stored blob in place, and the step in
\* which a commit succeeds removes it when the grace period has not yet done so.
C15_RetainedThenCollected ==
    [][/\ ResumeStep => blob' = blob
       /\ (CommitStep /\ commit'.pc = "refetch") => blob' = <<>>]_vars

\* the instances the page holds: those of the working copy and of the snapshot
Instances ==
    UNION {{w[1].exercises[i] : i \in 1..Len(w[1].exercises)} :
              w \in {workout, originalWorkout} \ {<<>>}}
\* the reference projection of an instance's sets, as a set
ReferenceSets(pc, instance) ==
    LET persisted == {instance.sets[j] : j \in 1..Len(instance.sets)}
        deleted == {e[1] : e \in {f \in Entries(pc.sets) : f[2].type = "delete"}}
        edits == {e \in Entries(pc.sets) : e[2].type = "edit"}
        patched(set) ==
            IF \E e \in edits : e[1] = set.id
            THEN Spread(set, (CHOOSE e \in edits : e[1] = set.id)[2].setData)
            ELSE set
        created == {e \in Entries(pc.newSets) : e[1][1] = instance.id}
    IN  {patched(set) : set \in {t \in persisted : t.id \notin deleted}}
        \cup {Spread(e[2], [id |-> -e[1][2]]) : e \in created}
Elements(seq) == {seq[i] : i \in 1..Len(seq)}
Ascending(seq) ==
    \A i \in 1..Len(seq), j \in 1..Len(seq) :
        i < j => seq[i].set_number <= seq[j].set_number

\* C16 (projectSets equals the reference projection): for every instance the
\* page holds, getDisplaySets returns exactly the instance's sets with pending
\* edits overlaid, without the sets pending deletion, with one set of negative
\* id per pending-new set of that instance, in ascending sequence number.
C16_ProjectSetsIsReference ==
    \A instance \in Instances :
        LET sets == getDisplaySets(instance)
        IN  /\ Elements(sets) = ReferenceSets(pendingChanges, instance)
            /\ Len(sets) = Cardinality(ReferenceSets(pendingChanges, instance))
            /\ Ascending(sets)
            /\ \A e \in Entries(pendingChanges.newSets) :
                  e[1][1] = instance.id =>
                      \E i \in 1..Len(sets) : sets[i].id < 0 /\ sets[i].id = -e[1][2]
\* Scenario B: an instance with two persisted sets, one of them with a pending
\* edit, shows three sets, the new one at sequence number 3 with a negative id
C16_Witness ==
    /\ phase = "open" /\ workout # <<>>
    /\ \E instance \in Instances :
          LET sets == getDisplaySets(instance)
          IN  /\ Len(sets) = 3 /\ sets[3].id < 0 /\ sets[3].set_number = 3
              /\ \E e \in Entries(pendingChanges.sets) :
                    e[2].type = "edit" /\ \E i \in 1..2 : sets[i].id = e[1]

\* C17 (a set with a pending delete is never displayed): no set returned by
\* getDisplaySets for an instance of the page, persisted or pending-new, has a
\* pending delete recorded under its id.
C17_DeletedSetNotDisplayed ==
    \A instance \in Instances :
        \A set \in Elements(getDisplaySets(instance)) :
            ~\E e \in Entries(pendingChanges.sets) :
                e[1] = set.id /\ e[2].type = "delete"

\* C18 (sequence contiguity): for every instance of the page, no two displayed
\* sets have the same sequence number, and when at least one set is displayed
\* the smallest sequence number is 1.
C18_SequenceContiguity ==
    \A instance \in Instances :
        LET sets == getDisplaySets(instance)
        IN  /\ \A i \in 1..Len(sets), j \in 1..Len(sets) :
                  i # j => sets[i].set_number # sets[j].set_number
            /\ sets # <<>> => \E i \in 1..Len(sets) : sets[i].set_number = 1

\* the step in which the add-set dialog records a new set
RecordsNewSet ==
    /\ addingSetToExercise # 0
    /\ Len(pendingChanges'.newSets) = Len(pendingChanges.newSets) + 1
NewestSet == pendingChanges'.newSets[Len(pendingChanges'.newSets)][2]
Largest(S) == CHOOSE n \in S : \A m \in S : m <= n

\* C19 (sequence number assignment): the set recorded by the add-set dialog for
\* an instance gets 1 + the largest sequence number among that instance's
\* projected sets (its persisted sets not pending deletion and its pending-new
\* sets), or 1 when it has none, whatever the sets of the other instances.
C19_NextSequenceNumber ==
    [][RecordsNewSet =>
          \A instance \in Instances :
              instance.id = addingSetToExercise =>
                  LET numbers == {set.set_number :
                                    set \in ReferenceSets(pendingChanges, instance)}
                  IN  /\ NewestSet.workout_exercise_id = instance.id
                      /\ NewestSet.set_number =
                            IF numbers = {} THEN 1 ELSE 1 + Largest(numbers)]_vars
\* instance 1, showing numbers 1 and 2, got a set numbered 3, and instance 2,
\* showing nothing, got a set numbered 1
C19_Witness ==
    \E e \in Entries(pendingChanges.newSets), f \in Entries(pendingChanges.newSets) :
        /\ e[2].workout_exercise_id = 1 /\ e[2].set_number = 3
        /\ f[2].workout_exercise_id = 2 /\ f[2].set_number = 1

\* the reference projection of the instances, position by position
ReplaceOf(pc, id) ==
    {e[2] : e \in {f \in Entries(pc.exercises) : f[1] = id /\ f[2].type = "replace"}}
KeptPositions(pc, exs) ==
    {i \in 1..Len(exs) :
        ~\E e \in Entries(pc.exercises) : e[1] = exs[i].id /\ e[2].type = "delete"}
Rank(kept, i) == Cardinality({k \in kept : k <= i})
IsReferenceExercises(result, pc, exs) ==
    LET kept == KeptPositions(pc, exs)
    IN  /\ Len(result) = Cardinality(kept) + Len(pc.newExercises)
        /\ \A i \in kept :
              LET shown == result[Rank(kept, i)]
              IN  /\ shown.id = exs[i].id /\ shown.sets = exs[i].sets
                  /\ shown.order_index = exs[i].order_index
                  /\ IF ReplaceOf(pc, exs[i].id) = {}
                     THEN shown = exs[i]
                     ELSE \A r \in ReplaceOf(pc, exs[i].id) :
                              /\ shown.exercise_id = r.newExerciseId
                              /\ shown.name = r.newExerciseName
        /\ \A j \in 1..Len(pc.newExercises) :
              LET shown == result[Cardinality(kept) + j]
                  created == pc.newExercises[j][2]
              IN  /\ shown.id < 0 /\ shown.id = -created.tempId
                  /\ shown.sets = <<>>
                  /\ shown.exercise_id = created.exerciseId
                  /\ shown.name = created.name

\* C20 (projectExercises equals the reference projection): getDisplayExercises
\* returns the working copy's instances in their order, each pending replace
\* changing only definition id and name, without the instances pending deletion,
\* followed by the pending-new instances in ledger order, each with a negative
\* id and no sets.
C20_ProjectExercisesIsReference ==
    workout # <<>> =>
        IsReferenceExercises(getDisplayExercises, pendingChanges, workout[1].exercises)
\* an instance is shown under its replacement and a pending-new instance follows
C20_Witness ==
    /\ phase = "open" /\ workout # <<>>
    /\ Len(pendingChanges.newExercises) > 0
    /\ \E i \in 1..Len(workout[1].exercises) :
          /\ ReplaceOf(pendingChanges, workout[1].exercises[i].id) # {}
          /\ workout[1].exercises[i].sets # <<>>
    /\ getDisplayExercises[Len(getDisplayExercises)].id < 0

EntryCount(pc) ==
    Cardinality({e \in Entries(pc.sets) : e[2].type = "edit"})
    + Cardinality({e \in Entries(pc.sets) : e[2].type = "delete"})
    + Cardinality(Entries(pc.newSets))
    + Cardinality({e \in Entries(pc.exercises) : e[2].type \in {"delete", "replace"}})
    + Cardinality(Entries(pc.newExercises))
    + Cardinality(DOMAIN pc.workout)

\* C22 (dirty flag): hasPendingChanges() is true exactly when the ledger holds at
\* least one entry of any kind.
C22_DirtyFlag == hasPendingChanges <=> EntryCount(pendingChanges) > 0
\* the only entry of the ledger is a pending-new instance
C22_Witness ==
    /\ phase = "open" /\ hasPendingChanges
    /\ Len(pendingChanges.newExercises) = 1
    /\ EntryCount(pendingChanges) = 1

\* the entries a Map of the ledger holds under an id
EntriesOf(m, id) == {e \in Entries(m) : e[1] = id}
\* the set with the given id in the working copy, reduced to the edited fields
EditedFields(w, id) ==
    LET set == SetIn(w[1], id)
    IN  [weight_lbs |-> set.weight_lbs, reps |-> set.reps, notes |-> set.notes]
\* the edit-set dialog is closed by Update, which counts as a recorded change
UpdateStep == editingSet # <<>> /\ editingSet' = <<>> /\ userOps' = userOps + 1
NewlyDeleted(id) ==
    /\ \E e \in EntriesOf(pendingChanges'.sets, id) : e[2].type = "delete"
    /\ ~\E e \in EntriesOf(pendingChanges.sets, id) : e[2].type = "delete"

\* C23 (one ledger entry per persisted id, latest write wins): after every step
\* each set id and each instance id has at most one entry; an edit of a
\* persisted set leaves exactly one edit entry whose patch is the one just
\* typed, not a merge with an earlier patch; a delete leaves only the delete.
C23_OneEntryLatestWins ==
    [][/\ \A id \in MapKeys(pendingChanges'.sets) :
             Cardinality(EntriesOf(pendingChanges'.sets, id)) = 1
       /\ Len(pendingChanges'.sets) = Cardinality(MapKeys(pendingChanges'.sets))
       /\ Len(pendingChanges'.exercises) = Cardinality(MapKeys(pendingChanges'.exercises))
       /\ \A e \in Entries(pendingChanges'.exercises) :
             e[2].type \in {"delete", "replace"}
       /\ (UpdateStep /\ editingSet[1].id > 0) =>
             EntriesOf(pendingChanges'.sets, editingSet[1].id) =
                 {<<editingSet[1].id,
                    [id |-> editingSet[1].id, type |-> "edit",
                     setData |-> EditedFields(workout', editingSet[1].id)]>>}
       /\ \A id \in SetIds :
             NewlyDeleted(id) =>
                 EntriesOf(pendingChanges'.sets, id) =
                     {<<id, [id |-> id, type |-> "delete"]>>}
      ]_vars
\* a set has been edited twice, or edited and then deleted
C23_Witness ==
    /\ userOps = 2 /\ Len(pendingChanges.sets) = 1
    /\ ~hasPendingChangesOf([pendingChanges EXCEPT !.sets = EmptyMap])
    /\ pendingChanges.sets[1][1] > 0

\* the fields one header editor records together
HeaderPatches ==
    {{"name"}, {"intensity_level"}, {"notes"},
     {"started_at", "completed_at", "duration_minutes"}}
HeaderRecordStep ==
    /\ userOps' = userOps + 1
    /\ pendingChanges'.workout # NoFields
    /\ pendingChanges' = [pendingChanges EXCEPT !.workout = pendingChanges'.workout]

\* C24 (the header patch merges field by field): a step that records a header
\* patch p2 over the pending patch p1 leaves every field of p2 with the value
\* just saved and every field of p1 that p2 does not name with p1's value.
C24_HeaderPatchMerges ==
    [][HeaderRecordStep =>
          \E p2 \in HeaderPatches :
              /\ DOMAIN pendingChanges'.workout = (DOMAIN pendingChanges.workout) \cup p2
              /\ \A f \in p2 : pendingChanges'.workout[f] = workout'[1][f]
              /\ \A f \in (DOMAIN pendingChanges.workout) \ p2 :
                    pendingChanges'.workout[f] = pendingChanges.workout[f]
      ]_vars
\* an intensity patch was recorded first and a title patch over it
C24_Witness ==
    /\ phase = "open" /\ userOps = 2
    /\ DOMAIN pendingChanges.workout = {"name", "intensity_level"}
    /\ pendingChanges.workout.name = tempWorkoutName
    /\ pendingChanges.workout.intensity_level # originalWorkout[1].intensity_level

\* a snapshot fetch in flight ends and the page is left without a snapshot,
\* other than by the hand-off to the picker
FetchFailStep ==
    /\ phase = "open" /\ phase' # "suspended"
    /\ \/ mountFetch /\ ~mountFetch'
       \/ presFetch # <<>> /\ presFetch' = <<>>
    /\ originalWorkout' = <<>>

ReturnStep == phase = "suspended" /\ phase' = "open"

C27_TempIdsUnique ==
    [][/\ ResumeStep => tempSetIdCounter' = presFetch[1].counter
       /\ Len(pendingChanges'.newSets) = Cardinality(MapKeys(pendingChanges'.newSets))
       /\ \A k \in MapKeys(pendingChanges'.newSets) : k[2] < tempSetIdCounter'
      ]_vars
\* a new set kept by the reconciliation and a new set recorded after it
C27_Witness ==
    /\ phase = "open" /\ mounts = 1 /\ presFetch = <<>>
    /\ blob # <<>> /\ blob[1].tempSetIdCounter = 2
    /\ Len(blob[1].pendingChanges.newSets) = 1
    /\ Len(pendingChanges.newSets) = 2 /\ tempSetIdCounter = 3

\* the scratch values the page holds after the step
ScratchAfter ==
    [tempWorkoutName |-> tempWorkoutName', tempIntensity |-> tempIntensity',
     tempWorkoutNotes |-> tempWorkoutNotes',
     tempStartDateTime |-> tempStartDateTime', tempEndDateTime |-> tempEndDateTime']
\* the resume of the stored blob is answered by a snapshot that still holds
\* every entity the stored ledger names
RoundTripStep ==
    /\ ResumeStep /\ blob # <<>>
    /\ presFetch[1].pc = blob[1].pendingChanges
    /\ ~StaleIn(blob[1].pendingChanges, originalWorkout'[1])
LedgerRoundTrip ==
    /\ pendingChanges' = blob[1].pendingChanges
    /\ tempSetIdCounter' = blob[1].tempSetIdCounter

\* C28 (suspend/resume round trip): a suspend followed by a resume gives the
\* page the ledger, the temporary-id counter and the scratch values that were
\* suspended.
C28_SuspendResumeRoundTrip ==
    [][RoundTripStep => LedgerRoundTrip /\ ScratchAfter = blob[1].tempValues]_vars

\* the resume fetch is answered (the page is not left for the picker meanwhile)
ResumeAnswered == presFetch # <<>> /\ presFetch' = <<>> /\ phase' # "suspended"

\* C29 (the reconciler is total): whatever text is stored for the workout, a
\* resume whose fetch succeeds ends on the page with a ledger of all five
\* collections and the header patch, and does not navigate away.
C29_ReconcilerTotal ==
    [][ResumeAnswered =>
          /\ phase' = "open"
          /\ DOMAIN pendingChanges' = DOMAIN EmptyPendingChanges
      ]_vars

\* the kind of entry a call of the commit belongs to
EntryCategory(call) ==
    CASE call.stage = 1 -> "header"
      [] call.stage \in {2, 3} -> "set"
      [] call.stage \in {4, 5} -> "exercise"
\* the kind of entry a reported message names
NamedCategory(message) ==
    CASE message = "Failed to update workout details" -> "header"
      [] message \in {"Failed to update set", "Failed to delete set",
                      "Failed to create new set for exercise"} -> "set"
      [] message \in {"Failed to add exercise", "Failed to delete exercise",
                      "Failed to replace exercise"} -> "exercise"
      [] OTHER -> "none"
\* the awaited call of the commit fails and the run ends
FailureStep == commit.pc = "await" /\ commit'.outcome = "failed" /\ phase' = "open"

\* C30 (the failure report names the failed operation): when a call of the
\* commit fails, the reported message names the kind of entry of that call
\* (header, set or exercise), and that call is the first of the run to fail.
C30_FailureNamesCategory ==
    [][FailureStep =>
          /\ NamedCategory(commit'.error) =
                 EntryCategory(commit.calls[Len(commit.calls)])
          /\ \A i \in 1..(Len(commit.calls) - 1) : commit'.calls[i].status = "ok"
      ]_vars

\* the ledger is cleared and the working copy reset to the snapshot by a step
\* that is not a step of the commit
DiscardStep ==
    /\ hasPendingChanges /\ pendingChanges' = EmptyPendingChanges
    /\ workout' = originalWorkout /\ commit' = commit /\ phase' = "open"

\* C31 (discard only before a commit, never during it): between the start of a
\* commit and its resolution no step clears the ledger and resets the display,
\* so the commit does not go on issuing calls for discarded entries.
C31_NoDiscardDuringCommit ==
    [][DiscardStep => commit.pc = "idle"]_vars

\* every entry of the ledger pc is an entry of the ledger sent
WithinLedger(pc, sent) ==
    /\ \A f \in DOMAIN pc.workout :
          f \in DOMAIN sent.workout /\ pc.workout[f] = sent.workout[f]
    /\ Entries(pc.sets) \subseteq Entries(sent.sets)
    /\ Entries(pc.exercises) \subseteq Entries(sent.exercises)
    /\ Entries(pc.newSets) \subseteq Entries(sent.newSets)
    /\ Entries(pc.newExercises) \subseteq Entries(sent.newExercises)
\* the steps of a successful commit that clear the ledger: the one after the
\* last call, and the one that applies the refetched snapshot
ClearsAfterCalls == commit.pc = "await" /\ commit'.pc = "refetch"
ClearsAtRefetch == commit.pc = "refetch" /\ commit'.outcome = "saved"

\* C32 (no pending change is cleared unsent): what a successful commit removes
\* from the ledger are entries whose calls it issued; an entry recorded while
\* the commit is in flight is not among the removed ones.
C32_NothingClearedUnsent ==
    [][/\ ClearsAfterCalls => WithinLedger(pendingChanges, commit.closure)
       /\ ClearsAtRefetch => pendingChanges = EmptyPendingChanges
      ]_vars

\* rows of the store that are not rows of the initial store
CreatedSets == {r \in srvSets : r.id \notin SetIds}
CreatedExercises == {r \in srvEx : r.id \notin ExerciseIds}

\* C33 (a retry does not duplicate creations): when a commit fails part-way
\* and the retry of the ledger succeeds, the store holds at most one new set
\* per new-set entry and one new instance per new-exercise entry of the ledger.
C33_RetryCreatesOnce ==
    (commit.runs > 1 /\ commit.pc = "refetch") =>
        /\ Cardinality(CreatedSets) <= Len(commit.closure.newSets)
        /\ Cardinality(CreatedExercises) <= Len(commit.closure.newExercises)

\* a run before the retries has failed after one of its delete calls had
\* succeeded, and the ledger is the one that run was started with
FailedAfterDelete ==
    /\ commit.outcome = "failed" /\ commit.runs <= MaxCommits
    /\ pendingChanges = commit.closure
    /\ \E i \in 1..Len(commit.calls) :
          /\ commit.calls[i].op \in {"DELETE set", "DELETE exercise"}
          /\ commit.calls[i].status = "ok"
Drained == commit.outcome = "saved" /\ pendingChanges = EmptyPendingChanges

\* C34 (a retry can succeed): when a commit has failed after one of its deletes
\* was applied and every later call is answered by the store, retrying the
\* intact ledger leads to a commit that succeeds and drains the ledger.
C34_RetryCanSucceed == FailedAfterDelete ~> Drained

\* the resume of a later visit installs its ledger
LaterResumeStep ==
    /\ mounts > MaxMounts /\ isRestoring /\ presFetch # <<>>
    /\ phase' = "open" /\ ~isRestoring' /\ presFetch' = <<>>

\* C35 (committed or discarded entries never come back): when the restored
\* ledger was committed or discarded and the page is left again with an empty
\* ledger, the resume of the later visit installs no ledger entry.
C35_DrainedStaysDrained ==
    [][LaterResumeStep => pendingChanges' = EmptyPendingChanges]_vars

\* the definitions fetched for an addition arrive and are recorded
AddedStep ==
    /\ defFetch # <<>> /\ defFetch[1].mode = "add" /\ defFetch' = <<>>
    /\ pendingChanges'.newExercises # pendingChanges.newExercises

\* C36 (temporary keys of new exercise instances are unique): recording k
\* selected exercises leaves every ExerciseCreate entry of the ledger in place
\* and adds exactly k entries, whatever the clock reads.
C36_NewExerciseKeysUnique ==
    [][AddedStep =>
          /\ Len(pendingChanges'.newExercises)
                = Len(pendingChanges.newExercises) + Len(defFetch[1].ids)
          /\ Entries(pendingChanges.newExercises)
                \subseteq Entries(pendingChanges'.newExercises)]_vars

\* C37 (a committed new exercise instance lands after all existing ones): the
\* order index the store gives to a created exercise instance is greater than
\* the order index of every instance the workout already has.
C37_NewExerciseLandsLast ==
    [][\A r \in srvEx' : r.id \notin {e.id : e \in srvEx} =>
          \A e \in srvEx : r.order_index > e.order_index]_vars

\* "Delete Exercise" on the pending-new instance with temporary key t
DeletesPendingNew(t) ==
    /\ Interactive /\ -t \in {e.id : e \in DisplayedExercises}
    /\ MapHas(pendingChanges.newExercises, t)
    /\ ~MapHas(pendingChanges'.newExercises, t)
    /\ userOps' = userOps + 1
\* entries of the ledger pc that make the commit send a call naming instance id
CallsNaming(pc, id) ==
    {e \in Entries(pc.exercises) : e[1] = id}
        \cup {e \in Entries(pc.newSets) : e[2].workout_exercise_id = id}

\* C38 (deleting a pending-new exercise instance only removes its
\* ExerciseCreate entry): the delete records no ExerciseDelete, leaves the other
\* four collections as they were, removes the instance from the displayed
\* exercises, and leaves no entry that makes the commit address the temporary id.
C38_DeletePendingNewExercise ==
    [][\A t \in MapKeys(pendingChanges.newExercises) : DeletesPendingNew(t) =>
          /\ pendingChanges'.newExercises = MapDelete(pendingChanges.newExercises, t)
          /\ pendingChanges'.exercises = pendingChanges.exercises
          /\ pendingChanges'.sets = pendingChanges.sets
          /\ pendingChanges'.newSets = pendingChanges.newSets
          /\ pendingChanges'.workout = pendingChanges.workout
          /\ -t \notin {e.id : e \in DisplayedExercises'}
          /\ CallsNaming(pendingChanges', -t) = {}]_vars

\* C39 (commit and resume always finish): when every awaited request settles,
\* a set saving flag is eventually cleared and a set restoring flag is
\* eventually cleared.
C39_CommitAndResumeFinish ==
    /\ isSaving ~> ~isSaving
    /\ isRestoring ~> ~isRestoring
\* a resumed session whose commit was stopped by a thrown call has both flags
\* cleared
C39_Witness ==
    /\ phase = "open" /\ mounts > 0 /\ presFetch = <<>> /\ ~isRestoring
    /\ commit.outcome = "failed" /\ commit.error = FetchError /\ ~isSaving

====
